----------------------------- MODULE Portfolio ------------------------------
(***************************************************************************)
(* scripts/parallel_pono.py: one pono process per engine, the answer of    *)
(* the first one found to have solved the problem, and the cleaning up.    *)
(* Engines are numbered in the order of ENGINE_OPTIONS, in which they are  *)
(* launched; a dictionary keeps it, so a walk over one goes by the number. *)
(*                                                                         *)
(* One action is one system call of the script, or the change of one of    *)
(* its dictionaries.  The processes run at any speed in between, may never *)
(* end and may crash; a signal reaches a process some time after it was    *)
(* sent.  At every step the script can be interrupted (an exception: the   *)
(* atexit handler runs, or stops if it was running) or killed (it does     *)
(* not), and every call can fail.                                          *)
(***************************************************************************)
EXTENDS Integers, SequencesExt

CONSTANT N    (* the number of engines in ENGINE_OPTIONS *)

ASSUME EnginesAssumption == N \in Nat \ {0}

Engine == 1..N
Solved == {"SAT", "UNSAT"}                                 \* SOLVED_RETURN_CODES
Codes  == Solved \cup {"ERROR", "UNKNOWN", "SIGNAL"}       \* a process that ended
Files  == {"NONE", "EMPTY", "WITNESS"}
Nobody == 0

VARIABLES
  truth,      (* the right answer, which is the only one an engine gives   *)
  dumps,      (* whether a witness_file was asked for                      *)
  verbose,    (* whether the processes' stderr is echoed                   *)
  pc,         (* the next step; "done", "aborted" and "killed" are ends    *)
  name,       (* main's loop variable: the engine in hand                  *)
  processes,  (* the engines in the dictionary of that name                *)
  walk,       (* those the running clean_up has not done with              *)
  exiting,    (* whether main has been left                                *)
  struck,     (* the step of main that an exception struck                 *)
  proc,       (* "NONE", "RUNNING" or the code each process ended with     *)
  signalled,  (* the engines that were sent SIGTERM                        *)
  temp,       (* the temporary witness file of each engine                 *)
  summary,    (* the rows of the summary file                              *)
  printed,    (* the engine whose output was printed                       *)
  dest,       (* what was moved to witness_file, and whose it was          *)
  status      (* the exit status of the script                             *)

setup   == <<truth, dumps, verbose>>
control == <<name, processes, walk, exiting, struck>>
world   == <<proc, temp, signalled>>
report  == <<summary, printed, dest, status>>
vars    == <<setup, pc, control, world, report>>

Init ==
  /\ truth \in Solved
  /\ dumps \in BOOLEAN /\ verbose \in BOOLEAN
  /\ pc = "create" /\ name = 1
  /\ processes = {} /\ walk = {}
  /\ exiting = FALSE /\ struck = "NONE"
  /\ proc = [e \in Engine |-> "NONE"]
  /\ signalled = {}
  /\ temp = [e \in Engine |-> "NONE"]
  /\ summary = <<>>
  /\ printed = Nobody
  /\ dest = <<Nobody, "NONE">>
  /\ status = "NONE"

\* The entry a walk over a dictionary comes to first.
First(S) == {e \in S : \A f \in S : e <= f}

\* main is left: the atexit handler walks over what is in the dictionary now.
Leave(s) ==
  /\ pc' = "clean_up" /\ exiting' = TRUE
  /\ walk' = processes
  /\ status' = s

----------------------------------------------------------------------------
\* main: the file is created before the process that is told its name, and
\* the process is entered in the dictionary after it has started.
CreateTemp ==
  /\ pc = "create"
  /\ temp' = IF dumps THEN [temp EXCEPT ![name] = "EMPTY"] ELSE temp
  /\ pc' = "popen"
  /\ UNCHANGED <<setup, control, proc, signalled, report>>

Start ==
  /\ pc = "popen"
  /\ proc' = [proc EXCEPT ![name] = "RUNNING"]
  /\ pc' = "record"
  /\ UNCHANGED <<setup, control, temp, signalled, report>>

Record ==
  /\ pc = "record"
  /\ processes' = processes \cup {name}
  /\ IF name = N THEN pc' = "poll" /\ name' = 1 ELSE pc' = "create" /\ name' = name + 1
  /\ UNCHANGED <<setup, walk, exiting, struck, world, report>>

\* The loop over the dictionary, which starts over at its end.
Following == {e \in processes : e > name}
PollRunning ==
  /\ pc = "poll" /\ processes # {}
  /\ proc[name] = "RUNNING"
  /\ name' \in First(IF Following # {} THEN Following ELSE processes)
  /\ UNCHANGED <<setup, pc, processes, walk, exiting, struck, world, report>>

PollEnded ==
  /\ pc = "poll" /\ processes # {}
  /\ proc[name] \in Codes
  /\ pc' = "summarize"
  /\ UNCHANGED <<setup, control, world, report>>

Summarize ==
  /\ pc = "summarize"
  /\ summary' = Append(summary, <<name, proc[name]>>)
  /\ pc' = IF proc[name] \in Solved THEN "print" ELSE "delete"
  /\ UNCHANGED <<setup, control, world, printed, dest, status>>

\* Slip: the loop goes on without cleaning up.
Delete_KeepsFile ==
  /\ pc = "delete"
  /\ processes' = processes \ {name}
  /\ pc' = "clean_up"
  /\ UNCHANGED <<setup, name, walk, exiting, struck, world, report>>

\* The entry goes first, then clean_up is called with a dictionary of its own.
Delete ==
  /\ pc = "delete"
  /\ processes' = processes \ {name}
  /\ walk' = {name}
  /\ pc' = "clean_up"
  /\ UNCHANGED <<setup, name, exiting, struck, world, report>>

NoneLeft ==
  /\ pc = "poll" /\ processes = {}
  /\ Leave("UNKNOWN")
  /\ UNCHANGED <<setup, name, processes, struck, world, summary, printed, dest>>

PrintOutput ==
  /\ pc = "print"
  /\ printed' = name
  /\ pc' = IF dumps THEN "move" ELSE "return"
  /\ UNCHANGED <<setup, control, world, summary, dest, status>>

----------------------------------------------------------------------------
\* shutil.move: the file is renamed, or between two file systems copied and
\* then removed.
Rename ==
  /\ pc = "move"
  /\ dest' = <<name, temp[name]>>
  /\ temp' = [temp EXCEPT ![name] = "NONE"]
  /\ pc' = "return"
  /\ UNCHANGED <<setup, control, proc, signalled, summary, printed, status>>

OpenCopy ==
  /\ pc = "move"
  /\ dest' = <<name, "PART">>
  /\ pc' = "copy"
  /\ UNCHANGED <<setup, control, world, summary, printed, status>>

\* Slip: the witness of the first engine that is left.
Copy_First ==
  /\ pc = "copy"
  /\ \E e \in First(processes) : dest' = <<e, temp[e]>>
  /\ pc' = "remove"
  /\ UNCHANGED <<setup, control, world, summary, printed, status>>

Copy ==
  /\ pc = "copy"
  /\ dest' = <<name, temp[name]>>
  /\ pc' = "remove"
  /\ UNCHANGED <<setup, control, world, summary, printed, status>>

RemoveSource ==
  /\ pc = "remove"
  /\ temp' = [temp EXCEPT ![name] = "NONE"]
  /\ pc' = "return"
  /\ UNCHANGED <<setup, control, proc, signalled, report>>

Return ==
  /\ pc = "return"
  /\ Leave(proc[name])
  /\ UNCHANGED <<setup, name, processes, struck, world, summary, printed, dest>>

----------------------------------------------------------------------------
\* Slip: only the files are removed.
Terminate_NoSignal ==
  /\ pc = "clean_up" /\ walk # {}
  /\ pc' = "unlink"
  /\ UNCHANGED <<setup, control, world, report>>

\* clean_up, called in the loop and at exit.  It only sends the signal and
\* does not wait before it removes the file.
Terminate ==
  /\ pc = "clean_up"
  /\ \E e \in First(walk) :
       signalled' = IF proc[e] = "RUNNING" THEN signalled \cup {e} ELSE signalled
  /\ pc' = "unlink"
  /\ UNCHANGED <<setup, control, proc, temp, report>>

Unlink ==
  /\ pc = "unlink"
  /\ \E e \in First(walk) : temp' = [temp EXCEPT ![e] = "NONE"]
  /\ pc' = "read"
  /\ UNCHANGED <<setup, control, proc, signalled, report>>

\* Reading stderr, when it is a pipe, takes until the process has ended.
ReadStderr ==
  /\ pc = "read"
  /\ \E e \in First(walk) :
       /\ verbose => proc[e] # "RUNNING"
       /\ walk' = walk \ {e}
  /\ pc' = "clean_up"
  /\ UNCHANGED <<setup, name, processes, exiting, struck, world, report>>

\* Back in the loop, which starts over, or the end.
CleanedUp ==
  /\ pc = "clean_up" /\ walk = {}
  /\ IF exiting THEN pc' = "done" /\ UNCHANGED name
     ELSE /\ pc' = "poll"
          /\ IF processes = {} THEN UNCHANGED name ELSE name' \in First(processes)
  /\ UNCHANGED <<setup, processes, walk, exiting, struck, world, report>>

----------------------------------------------------------------------------
Ended == pc \in {"done", "aborted", "killed"}

\* An exception nobody catches.  In main it leads to the atexit handler, and
\* Python exits with status s; in the handler it ends the handler, and the
\* script, whose status stays.
Raise(s) ==
  /\ IF exiting
     THEN pc' = "aborted" /\ UNCHANGED <<walk, exiting, struck, status>>
     ELSE Leave(s) /\ struck' = pc
  /\ UNCHANGED <<setup, name, processes, world, summary, printed, dest>>

\* A call of the system fails: status 1, which is also that of UNSAT.
CallFails ==
  /\ \/ pc \in {"popen", "summarize", "print", "move", "copy", "remove"}
     \/ pc \in {"create", "unlink"} /\ dumps
     \/ pc = "read" /\ verbose
  /\ Raise("UNSAT")

Interrupt == ~Ended /\ Raise("SIGNAL")

\* A signal that Python does not turn into an exception.
Killed ==
  /\ ~Ended
  /\ pc' = "killed"
  /\ status' = "SIGNAL"
  /\ UNCHANGED <<setup, control, world, summary, printed, dest>>

----------------------------------------------------------------------------
\* A pono process: it writes the witness before it exits with "SAT".
script == <<setup, pc, control, report>>

WriteWitness(e) ==
  /\ proc[e] = "RUNNING"
  /\ dumps /\ truth = "SAT"
  /\ temp' = [temp EXCEPT ![e] = "WITNESS"]
  /\ UNCHANGED <<script, proc, signalled>>

Exit(e) ==
  /\ proc[e] = "RUNNING"
  /\ \E c \in {truth, "ERROR", "UNKNOWN", "SIGNAL"} :
       /\ c = "SAT" /\ dumps => temp[e] = "WITNESS"
       /\ proc' = [proc EXCEPT ![e] = c]
  /\ UNCHANGED <<script, temp, signalled>>

Terminated(e) ==
  /\ proc[e] = "RUNNING"
  /\ e \in signalled
  /\ proc' = [proc EXCEPT ![e] = "SIGNAL"]
  /\ UNCHANGED <<script, temp, signalled>>

\* The script's own steps, and what the system may do to it.
Script ==
  \/ CreateTemp
  \/ Start
  \/ Record
  \/ PollRunning
  \/ PollEnded
  \/ Summarize
  \/ Delete
  \/ NoneLeft
  \/ PrintOutput
  \/ Rename
  \/ OpenCopy
  \/ Copy
  \/ RemoveSource
  \/ Return
  \/ Terminate
  \/ Unlink
  \/ ReadStderr
  \/ CleanedUp
Failure ==
  \/ CallFails
  \/ Interrupt
  \/ Killed
Process(e) ==
  \/ WriteWitness(e)
  \/ Exit(e)
  \/ Terminated(e)

Next == Script \/ Failure \/ \E e \in Engine : Process(e)

\* The script polls without pause, a signal arrives; a process need never end.
Spec ==
  /\ Init /\ [][Next]_vars
  /\ WF_vars(Script)
  /\ \A e \in Engine : WF_vars(Terminated(e))

----------------------------------------------------------------------------
(* What is reported is one engine's: the output that is printed, the file  *)
(* that is moved and the last row of the summary are those of an engine    *)
(* that solved the problem, the file holds a witness if the answer is SAT  *)
(* unless its copying was cut short, every other row tells of an engine    *)
(* that had ended without an answer, the script gives up only when all of  *)
(* them have, and a status that no exception set is the right answer,      *)
(* reported in full.                                                       *)
Moved == <<printed, IF truth = "SAT" THEN "WITNESS" ELSE "EMPTY">>
ReportIsOneEngines ==
  /\ \A k \in DOMAIN summary :
       /\ summary[k][2] = proc[summary[k][1]]
       /\ \A j \in 1..k-1 : summary[j][1] # summary[k][1] /\ summary[j][2] \notin Solved
  /\ printed # Nobody =>
       /\ proc[printed] = truth
       /\ Last(summary)[1] = printed
       /\ status # "UNKNOWN"
  /\ dest # <<Nobody, "NONE">> =>
       \/ dest = Moved
       \/ dest = <<printed, "PART">> /\ (pc \in {"copy", "killed"} \/ struck = "copy")
  /\ status = "UNKNOWN" => \A e \in Engine : proc[e] \in Codes \ Solved
  /\ status \in Solved /\ struck = "NONE" =>
       status = truth /\ printed # Nobody /\ (dumps => dest = Moved)

(* When the script has ended and was not killed, what it leaves behind is  *)
(* accounted for.  A process is left running only if it has been sent the  *)
(* signal, was being launched when an exception struck, or if a second     *)
(* exception cut the atexit handler short before it came to it; a file     *)
(* only in these cases, or if the exception struck between the deletion of *)
(* its engine and the removal of the file.  An undisturbed run leaves      *)
(* nothing but what a signalled process writes before it ends.             *)
NothingLeftBehind ==
  pc \in {"done", "aborted"} =>
    \A e \in Engine :
      \/ pc = "aborted" /\ e \in walk
      \/ /\ proc[e] = "RUNNING" =>
              e \in signalled \/ (e = name /\ struck = "record")
         /\ temp[e] # "NONE" =>
              \/ e \in signalled
              \/ e = name /\ struck \in {"popen", "record", "clean_up", "unlink"}

(* Once an engine has an answer, or all have ended, the script ends, and   *)
(* every process with it, but those that an exception in the atexit        *)
(* handler kept from being sent the signal.                                *)
Answered  == \E e \in Engine : proc[e] \in Solved
AllEnded  == \A e \in Engine : proc[e] \in Codes
Left      == {e \in Engine : proc[e] = "RUNNING"}
Returns ==
  pc = "poll" /\ (Answered \/ AllEnded) ~>
    \/ pc = "killed"
    \/ pc = "done" /\ Left = {}
    \/ pc = "aborted" /\ Left \subseteq walk \ signalled
=============================================================================
