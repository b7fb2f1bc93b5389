--------------------------- MODULE PortfolioProofs ---------------------------
(***************************************************************************)
(* Whatever the number of engines, the portfolio reports what one engine   *)
(* found, and what it leaves behind is accounted for.                      *)
(***************************************************************************)
EXTENDS Portfolio, TLAPS

Launching  == pc \in {"create", "popen", "record"}
Answering  == pc \in {"move", "copy", "remove", "return"}
Reporting  == pc = "print" \/ Answering
Visiting   == pc \in {"summarize", "delete"} \/ Reporting
CleaningUp == pc \in {"clean_up", "unlink", "read"}

\* main runs: no exception has struck, and it has not returned.
Active == ~exiting /\ pc # "killed"

Reported(e) == \E k \in DOMAIN summary : summary[k][1] = e
InFlight(e) == e = name /\ pc \in {"popen", "record"}

TypeInv ==
  /\ truth \in Solved
  /\ dumps \in BOOLEAN /\ verbose \in BOOLEAN /\ exiting \in BOOLEAN
  /\ name \in Engine
  /\ processes \subseteq Engine /\ walk \subseteq Engine
  /\ proc \in [Engine -> {"NONE", "RUNNING"} \cup Codes]
  /\ signalled \subseteq Engine
  /\ temp \in [Engine -> Files]
  /\ summary \in Seq(Engine \X Codes)
  /\ printed \in 0..N
  /\ status \in Solved \cup {"NONE", "UNKNOWN", "SIGNAL"}

\* Once main is left there is clean_up, and then the end.
PhaseInv ==
  /\ Launching \/ pc = "poll" \/ Visiting \/ CleaningUp \/ Ended
  /\ pc \in {"done", "aborted"} => exiting
  /\ exiting => CleaningUp \/ Ended
  /\ ~exiting => struck = "NONE"

\* An engine has an entry from the step after its process was started until
\* there is a row for it.
ListInv ==
  /\ Launching =>
       /\ processes = 1..name-1
       /\ \A e \in Engine : e < name => proc[e] # "NONE"
       /\ \A e \in Engine : e > name => proc[e] = "NONE" /\ temp[e] = "NONE"
  /\ pc \in {"create", "popen"} => proc[name] = "NONE"
  /\ pc = "create" => temp[name] = "NONE"
  /\ pc = "record" => proc[name] # "NONE"
  /\ Active /\ ~Launching =>
       \A e \in Engine : proc[e] # "NONE" /\ (e \in processes \/ Reported(e))
  /\ pc = "poll" /\ processes # {} => name \in processes
  /\ Visiting => name \in processes /\ proc[name] \in Codes
  /\ pc = "delete" => proc[name] \notin Solved /\ Reported(name)
  /\ Reporting => proc[name] \in Solved
  /\ Active /\ CleaningUp =>
       walk \subseteq {name} /\ name \notin processes /\ proc[name] \in Codes
  /\ pc = "done" => walk = {}

\* The rows are true, and but for the last one of engines without an answer.
RowInv ==
  /\ Launching => summary = <<>>
  /\ \A k \in DOMAIN summary :
       /\ summary[k][2] = proc[summary[k][1]]
       /\ \A j \in 1..k-1 : summary[j][1] # summary[k][1] /\ summary[j][2] \notin Solved
  /\ pc \in {"poll", "summarize"} \/ (Active /\ CleaningUp) =>
       \A k \in DOMAIN summary :
         summary[k][2] \notin Solved /\ summary[k][1] \notin processes
  /\ pc = "delete" =>
       \A k \in DOMAIN summary :
         summary[k][2] \notin Solved /\ summary[k][1] \notin processes \ {name}
  /\ Reporting => summary # <<>> /\ summary[Len(summary)][1] = name

\* An answer is the right one, and it is reported once and as a whole.
AnswerInv ==
  /\ \A e \in Engine : proc[e] \in Solved => proc[e] = truth
  /\ Active => status = "NONE"
  /\ Active /\ ~Answering => printed = Nobody
  /\ Answering => printed = name
  /\ pc \in {"move", "copy", "remove"} => dumps
  /\ (Active /\ ~Answering) \/ pc = "move" => dest = <<Nobody, "NONE">>
  /\ pc = "copy" => dest = <<name, "PART">>
  /\ pc = "remove" => dest = Moved
  /\ pc = "return" => IF dumps THEN dest = Moved ELSE dest = <<Nobody, "NONE">>
  /\ printed # Nobody =>
       /\ proc[printed] = truth
       /\ summary # <<>>
       /\ summary[Len(summary)][1] = printed
       /\ status # "UNKNOWN"
  /\ dest # <<Nobody, "NONE">> =>
       \/ dest = Moved
       \/ dest = <<printed, "PART">> /\ (pc \in {"copy", "killed"} \/ struck = "copy")
  /\ status = "UNKNOWN" => \A e \in Engine : proc[e] \in Codes \ Solved
  /\ status \in Solved /\ struck = "NONE" =>
       status = truth /\ printed # Nobody /\ (dumps => dest = Moved)

\* The file of an engine that was not cleaned up is there, and holds a witness
\* once the engine has answered "SAT".
FileInv ==
  Active /\ dumps =>
    \A e \in Engine :
      (e \in processes /\ ~(e = name /\ pc = "return")) \/ InFlight(e) =>
        /\ temp[e] # "NONE"
        /\ truth = "UNSAT" => temp[e] = "EMPTY"
        /\ proc[e] = "SAT" => temp[e] = "WITNESS"

\* What there is to clean up is in the dictionary, or in hand; later, in the
\* walk of the handler or done with, or it was in hand when main was struck.
CleanInv ==
  /\ Active =>
       \A e \in Engine :
         /\ proc[e] = "RUNNING" => e \in processes \/ (e = name /\ pc = "record")
         /\ temp[e] # "NONE" =>
              \/ e \in processes
              \/ e = name /\ pc \in {"popen", "record"}
              \/ e = name /\ pc \in {"clean_up", "unlink"} /\ walk # {}
  /\ exiting /\ pc # "killed" =>
       \A e \in Engine :
         /\ proc[e] = "RUNNING" =>
              e \in walk \/ e \in signalled \/ (e = name /\ struck = "record")
         /\ temp[e] # "NONE" =>
              \/ e \in walk \/ e \in signalled
              \/ e = name /\ struck \in {"popen", "record", "clean_up", "unlink"}
  /\ exiting /\ pc \in {"unlink", "read"} =>
       \A e \in First(walk) : proc[e] = "RUNNING" => e \in signalled
  /\ exiting /\ pc = "read" =>
       \A e \in First(walk) : temp[e] # "NONE" => e \in signalled

PortfolioInv ==
  TypeInv /\ PhaseInv /\ ListInv /\ RowInv /\ AnswerInv /\ FileInv /\ CleanInv

----------------------------------------------------------------------------
(* A walk comes to one entry at a time.                                    *)
LEMMA FirstFacts ==
  ASSUME NEW S \in SUBSET Engine
  PROVE  /\ First(S) \subseteq S
         /\ \A e, f \in First(S) : e = f
  BY EnginesAssumption DEF First, Engine

LEMMA CreateTempKeeps ==
  ASSUME PortfolioInv, CreateTemp
  PROVE  PortfolioInv'
<1> USE EnginesAssumption DEF PortfolioInv, CreateTemp, setup, control, world, report,
       Launching, Answering, Reporting, Visiting, CleaningUp, Ended, Active
<1>1. TypeInv'
  BY DEF TypeInv, Engine, Solved, Codes, Files
<1>2. PhaseInv'
  BY DEF TypeInv, PhaseInv
<1>3. ListInv'
  BY DEF TypeInv, PhaseInv, ListInv, Reported
<1>4. RowInv'
  BY DEF TypeInv, PhaseInv, ListInv, RowInv
<1>5. AnswerInv'
  BY DEF TypeInv, PhaseInv, ListInv, AnswerInv, Moved, Nobody, Solved, Codes
<1>6. FileInv'
  BY DEF TypeInv, PhaseInv, ListInv, FileInv, InFlight, Solved, Codes
<1>7. CleanInv'
  BY DEF TypeInv, PhaseInv, ListInv, CleanInv, Codes
<1> QED BY <1>1, <1>2, <1>3, <1>4, <1>5, <1>6, <1>7

LEMMA StartKeeps ==
  ASSUME PortfolioInv, Start
  PROVE  PortfolioInv'
<1> USE EnginesAssumption DEF PortfolioInv, Start, setup, control, world, report,
       Launching, Answering, Reporting, Visiting, CleaningUp, Ended, Active
<1>1. TypeInv'
  BY DEF TypeInv, Engine, Solved, Codes, Files
<1>2. PhaseInv'
  BY DEF TypeInv, PhaseInv
<1>3. ListInv'
  BY DEF TypeInv, PhaseInv, ListInv, Reported
<1>4. RowInv'
  BY DEF TypeInv, PhaseInv, ListInv, RowInv
<1>5. AnswerInv'
  BY DEF TypeInv, PhaseInv, ListInv, AnswerInv, Moved, Nobody, Solved, Codes
<1>6. FileInv'
  BY DEF TypeInv, PhaseInv, ListInv, FileInv, InFlight, Solved, Codes
<1>7. CleanInv'
  BY DEF TypeInv, PhaseInv, ListInv, CleanInv, Codes
<1> QED BY <1>1, <1>2, <1>3, <1>4, <1>5, <1>6, <1>7

LEMMA RecordKeeps ==
  ASSUME PortfolioInv, Record
  PROVE  PortfolioInv'
<1> USE EnginesAssumption DEF PortfolioInv, Record, setup, control, world, report,
       Launching, Answering, Reporting, Visiting, CleaningUp, Ended, Active
<1>1. TypeInv'
  BY DEF TypeInv, Engine, Solved, Codes, Files
<1>2. PhaseInv'
  BY DEF TypeInv, PhaseInv
<1>3. ListInv'
  <2>1. name \in 1..N /\ processes = 1..name-1 /\ processes' = 1..name
    BY DEF TypeInv, ListInv, Launching, Engine
  <2>2. /\ \A e \in Engine : e <= name => proc[e] # "NONE"
        /\ \A e \in Engine : e > name => proc[e] = "NONE" /\ temp[e] = "NONE"
    BY <2>1 DEF TypeInv, ListInv, Launching, Engine
  <2>3. CASE name = N
    BY <2>1, <2>2, <2>3 DEF ListInv, Engine
  <2>4. CASE name # N
    BY <2>1, <2>2, <2>4 DEF PhaseInv, ListInv, Engine
  <2> QED BY <2>3, <2>4
<1>4. RowInv'
  BY DEF TypeInv, PhaseInv, ListInv, RowInv
<1>5. AnswerInv'
  BY DEF TypeInv, PhaseInv, ListInv, AnswerInv, Moved, Nobody, Solved, Codes
<1>6. FileInv'
  BY DEF TypeInv, PhaseInv, ListInv, FileInv, InFlight, Solved, Codes
<1>7. CleanInv'
  BY DEF TypeInv, PhaseInv, ListInv, CleanInv, Codes
<1> QED BY <1>1, <1>2, <1>3, <1>4, <1>5, <1>6, <1>7

LEMMA PollRunningKeeps ==
  ASSUME PortfolioInv, PollRunning
  PROVE  PortfolioInv'
<1> USE EnginesAssumption DEF PortfolioInv, PollRunning, setup, control, world, report,
       Launching, Answering, Reporting, Visiting, CleaningUp, Ended, Active
<1>0. name' \in processes
  <2> DEFINE S == IF Following # {} THEN Following ELSE processes
  <2>1. S \in SUBSET Engine /\ S \subseteq processes
    BY DEF TypeInv, Following
  <2>2. First(S) \subseteq S
    BY <2>1, FirstFacts
  <2> QED BY <2>1, <2>2
<1>1. TypeInv'
  BY <1>0 DEF TypeInv, Engine, Solved, Codes, Files
<1>2. PhaseInv'
  BY <1>0 DEF TypeInv, PhaseInv
<1>3. ListInv'
  BY <1>0 DEF TypeInv, PhaseInv, ListInv, Reported
<1>4. RowInv'
  BY <1>0 DEF TypeInv, PhaseInv, ListInv, RowInv
<1>5. AnswerInv'
  BY <1>0 DEF TypeInv, PhaseInv, ListInv, AnswerInv, Moved, Nobody, Solved, Codes
<1>6. FileInv'
  BY <1>0 DEF TypeInv, PhaseInv, ListInv, FileInv, InFlight, Solved, Codes
<1>7. CleanInv'
  BY <1>0 DEF TypeInv, PhaseInv, ListInv, CleanInv, Codes
<1> QED BY <1>1, <1>2, <1>3, <1>4, <1>5, <1>6, <1>7

LEMMA PollEndedKeeps ==
  ASSUME PortfolioInv, PollEnded
  PROVE  PortfolioInv'
<1> USE EnginesAssumption DEF PortfolioInv, PollEnded, setup, control, world, report,
       Launching, Answering, Reporting, Visiting, CleaningUp, Ended, Active
<1>1. TypeInv'
  BY DEF TypeInv, Engine, Solved, Codes, Files
<1>2. PhaseInv'
  BY DEF TypeInv, PhaseInv
<1>3. ListInv'
  BY DEF TypeInv, PhaseInv, ListInv, Reported
<1>4. RowInv'
  BY DEF TypeInv, PhaseInv, ListInv, RowInv
<1>5. AnswerInv'
  BY DEF TypeInv, PhaseInv, ListInv, AnswerInv, Moved, Nobody, Solved, Codes
<1>6. FileInv'
  BY DEF TypeInv, PhaseInv, ListInv, FileInv, InFlight, Solved, Codes
<1>7. CleanInv'
  BY DEF TypeInv, PhaseInv, ListInv, CleanInv, Codes
<1> QED BY <1>1, <1>2, <1>3, <1>4, <1>5, <1>6, <1>7

LEMMA SummarizeKeeps ==
  ASSUME PortfolioInv, Summarize
  PROVE  PortfolioInv'
<1> USE EnginesAssumption DEF PortfolioInv, Summarize, setup, control, world, report,
       Launching, Answering, Reporting, Visiting, CleaningUp, Ended, Active
<1>1. TypeInv'
  BY DEF TypeInv, Engine, Solved, Codes, Files, ListInv
<1>2. PhaseInv'
  BY DEF TypeInv, PhaseInv
<1>3. ListInv'
  BY DEF TypeInv, PhaseInv, ListInv, Reported
<1>4. RowInv'
  BY DEF TypeInv, PhaseInv, ListInv, RowInv
<1>5. AnswerInv'
  BY DEF TypeInv, PhaseInv, ListInv, AnswerInv, Moved, Nobody, Solved, Codes
<1>6. FileInv'
  BY DEF TypeInv, PhaseInv, ListInv, FileInv, InFlight, Solved, Codes
<1>7. CleanInv'
  BY DEF TypeInv, PhaseInv, ListInv, CleanInv, Codes
<1> QED BY <1>1, <1>2, <1>3, <1>4, <1>5, <1>6, <1>7

LEMMA DeleteKeeps ==
  ASSUME PortfolioInv, Delete
  PROVE  PortfolioInv'
<1> USE EnginesAssumption DEF PortfolioInv, Delete, setup, control, world, report,
       Launching, Answering, Reporting, Visiting, CleaningUp, Ended, Active
<1>1. TypeInv'
  BY DEF TypeInv, Engine, Solved, Codes, Files
<1>2. PhaseInv'
  BY DEF TypeInv, PhaseInv
<1>3. ListInv'
  BY DEF TypeInv, PhaseInv, ListInv, Reported
<1>4. RowInv'
  BY DEF TypeInv, PhaseInv, ListInv, RowInv
<1>5. AnswerInv'
  BY DEF TypeInv, PhaseInv, ListInv, AnswerInv, Moved, Nobody, Solved, Codes
<1>6. FileInv'
  BY DEF TypeInv, PhaseInv, ListInv, FileInv, InFlight, Solved, Codes
<1>7. CleanInv'
  BY DEF TypeInv, PhaseInv, ListInv, CleanInv, Codes
<1> QED BY <1>1, <1>2, <1>3, <1>4, <1>5, <1>6, <1>7

LEMMA NoneLeftKeeps ==
  ASSUME PortfolioInv, NoneLeft
  PROVE  PortfolioInv'
<1> USE EnginesAssumption DEF PortfolioInv, NoneLeft, Leave, setup, control, world, report,
       Launching, Answering, Reporting, Visiting, CleaningUp, Ended, Active
<1>1. TypeInv'
  BY DEF TypeInv, Engine, Solved, Codes, Files
<1>2. PhaseInv'
  BY DEF TypeInv, PhaseInv
<1>3. ListInv'
  BY DEF TypeInv, PhaseInv, ListInv, Reported
<1>4. RowInv'
  BY DEF TypeInv, PhaseInv, ListInv, RowInv
<1>5. AnswerInv'
  <2>1. \A e \in Engine : proc[e] \in Codes \ Solved
    <3> SUFFICES ASSUME NEW e \in Engine PROVE proc[e] \in Codes \ Solved
      OBVIOUS
    <3>1. PICK k \in DOMAIN summary : summary[k][1] = e
      BY DEF PhaseInv, ListInv, Reported
    <3> QED BY <3>1 DEF TypeInv, RowInv
  <2> QED BY <2>1 DEF PhaseInv, AnswerInv, Moved, Solved
<1>6. FileInv'
  BY DEF TypeInv, PhaseInv, ListInv, FileInv, InFlight, Solved, Codes
<1>7. CleanInv'
  BY DEF TypeInv, PhaseInv, ListInv, CleanInv, Codes
<1> QED BY <1>1, <1>2, <1>3, <1>4, <1>5, <1>6, <1>7

LEMMA PrintOutputKeeps ==
  ASSUME PortfolioInv, PrintOutput
  PROVE  PortfolioInv'
<1> USE EnginesAssumption DEF PortfolioInv, PrintOutput, setup, control, world, report,
       Launching, Answering, Reporting, Visiting, CleaningUp, Ended, Active
<1>1. TypeInv'
  BY DEF TypeInv, Engine, Solved, Codes, Files
<1>2. PhaseInv'
  BY DEF TypeInv, PhaseInv
<1>3. ListInv'
  BY DEF TypeInv, PhaseInv, ListInv, Reported
<1>4. RowInv'
  BY DEF TypeInv, PhaseInv, ListInv, RowInv
<1>5. AnswerInv'
  BY DEF TypeInv, PhaseInv, ListInv, AnswerInv, Moved, Nobody, Solved, Codes, RowInv
<1>6. FileInv'
  BY DEF TypeInv, PhaseInv, ListInv, FileInv, InFlight, Solved, Codes
<1>7. CleanInv'
  BY DEF TypeInv, PhaseInv, ListInv, CleanInv, Codes
<1> QED BY <1>1, <1>2, <1>3, <1>4, <1>5, <1>6, <1>7

LEMMA RenameKeeps ==
  ASSUME PortfolioInv, Rename
  PROVE  PortfolioInv'
<1> USE EnginesAssumption DEF PortfolioInv, Rename, setup, control, world, report,
       Launching, Answering, Reporting, Visiting, CleaningUp, Ended, Active
<1>1. TypeInv'
  BY DEF TypeInv, Engine, Solved, Codes, Files
<1>2. PhaseInv'
  BY DEF TypeInv, PhaseInv
<1>3. ListInv'
  BY DEF TypeInv, PhaseInv, ListInv, Reported
<1>4. RowInv'
  BY DEF TypeInv, PhaseInv, ListInv, RowInv
<1>5. AnswerInv'
  BY DEF TypeInv, PhaseInv, ListInv, AnswerInv, Moved, Nobody, Solved, Codes, FileInv
<1>6. FileInv'
  BY DEF TypeInv, PhaseInv, ListInv, FileInv, InFlight, Solved, Codes
<1>7. CleanInv'
  BY DEF TypeInv, PhaseInv, ListInv, CleanInv, Codes
<1> QED BY <1>1, <1>2, <1>3, <1>4, <1>5, <1>6, <1>7

LEMMA OpenCopyKeeps ==
  ASSUME PortfolioInv, OpenCopy
  PROVE  PortfolioInv'
<1> USE EnginesAssumption DEF PortfolioInv, OpenCopy, setup, control, world, report,
       Launching, Answering, Reporting, Visiting, CleaningUp, Ended, Active
<1>1. TypeInv'
  BY DEF TypeInv, Engine, Solved, Codes, Files
<1>2. PhaseInv'
  BY DEF TypeInv, PhaseInv
<1>3. ListInv'
  BY DEF TypeInv, PhaseInv, ListInv, Reported
<1>4. RowInv'
  BY DEF TypeInv, PhaseInv, ListInv, RowInv
<1>5. AnswerInv'
  BY DEF TypeInv, PhaseInv, ListInv, AnswerInv, Moved, Nobody, Solved, Codes
<1>6. FileInv'
  BY DEF TypeInv, PhaseInv, ListInv, FileInv, InFlight, Solved, Codes
<1>7. CleanInv'
  BY DEF TypeInv, PhaseInv, ListInv, CleanInv, Codes
<1> QED BY <1>1, <1>2, <1>3, <1>4, <1>5, <1>6, <1>7

LEMMA CopyKeeps ==
  ASSUME PortfolioInv, Copy
  PROVE  PortfolioInv'
<1> USE EnginesAssumption DEF PortfolioInv, Copy, setup, control, world, report,
       Launching, Answering, Reporting, Visiting, CleaningUp, Ended, Active
<1>1. TypeInv'
  BY DEF TypeInv, Engine, Solved, Codes, Files
<1>2. PhaseInv'
  BY DEF TypeInv, PhaseInv
<1>3. ListInv'
  BY DEF TypeInv, PhaseInv, ListInv, Reported
<1>4. RowInv'
  BY DEF TypeInv, PhaseInv, ListInv, RowInv
<1>5. AnswerInv'
  BY DEF TypeInv, PhaseInv, ListInv, AnswerInv, Moved, Nobody, Solved, Codes, FileInv
<1>6. FileInv'
  BY DEF TypeInv, PhaseInv, ListInv, FileInv, InFlight, Solved, Codes
<1>7. CleanInv'
  BY DEF TypeInv, PhaseInv, ListInv, CleanInv, Codes
<1> QED BY <1>1, <1>2, <1>3, <1>4, <1>5, <1>6, <1>7

LEMMA RemoveSourceKeeps ==
  ASSUME PortfolioInv, RemoveSource
  PROVE  PortfolioInv'
<1> USE EnginesAssumption DEF PortfolioInv, RemoveSource, setup, control, world, report,
       Launching, Answering, Reporting, Visiting, CleaningUp, Ended, Active
<1>1. TypeInv'
  BY DEF TypeInv, Engine, Solved, Codes, Files
<1>2. PhaseInv'
  BY DEF TypeInv, PhaseInv
<1>3. ListInv'
  BY DEF TypeInv, PhaseInv, ListInv, Reported
<1>4. RowInv'
  BY DEF TypeInv, PhaseInv, ListInv, RowInv
<1>5. AnswerInv'
  BY DEF TypeInv, PhaseInv, ListInv, AnswerInv, Moved, Nobody, Solved, Codes
<1>6. FileInv'
  BY DEF TypeInv, PhaseInv, ListInv, FileInv, InFlight, Solved, Codes
<1>7. CleanInv'
  BY DEF TypeInv, PhaseInv, ListInv, CleanInv, Codes
<1> QED BY <1>1, <1>2, <1>3, <1>4, <1>5, <1>6, <1>7

LEMMA ReturnKeeps ==
  ASSUME PortfolioInv, Return
  PROVE  PortfolioInv'
<1> USE EnginesAssumption DEF PortfolioInv, Return, Leave, setup, control, world, report,
       Launching, Answering, Reporting, Visiting, CleaningUp, Ended, Active
<1>1. TypeInv'
  BY DEF TypeInv, Engine, Solved, Codes, Files, ListInv
<1>2. PhaseInv'
  BY DEF TypeInv, PhaseInv
<1>3. ListInv'
  BY DEF TypeInv, PhaseInv, ListInv, Reported
<1>4. RowInv'
  BY DEF TypeInv, PhaseInv, ListInv, RowInv
<1>5. AnswerInv'
  <2>1. /\ printed = name /\ name # Nobody
        /\ proc[name] = truth /\ truth \in Solved
        /\ dumps => dest = Moved
        /\ dest # <<Nobody, "NONE">> => dest = Moved
    BY DEF TypeInv, ListInv, AnswerInv, Engine, Nobody
  <2>2. summary # <<>> /\ summary[Len(summary)][1] = name
    BY DEF RowInv
  <2> QED BY <2>1, <2>2 DEF AnswerInv, Moved, Solved
<1>6. FileInv'
  BY DEF TypeInv, PhaseInv, ListInv, FileInv, InFlight, Solved, Codes
<1>7. CleanInv'
  BY DEF TypeInv, PhaseInv, ListInv, CleanInv, Codes
<1> QED BY <1>1, <1>2, <1>3, <1>4, <1>5, <1>6, <1>7

LEMMA TerminateKeeps ==
  ASSUME PortfolioInv, Terminate
  PROVE  PortfolioInv'
<1> USE EnginesAssumption DEF PortfolioInv, Terminate, setup, control, world, report,
       Launching, Answering, Reporting, Visiting, CleaningUp, Ended, Active
<1>0. First(walk) \subseteq walk /\ \A e, f \in First(walk) : e = f
  BY FirstFacts DEF TypeInv
<1>1. TypeInv'
  BY <1>0 DEF TypeInv, Engine, Solved, Codes, Files
<1>2. PhaseInv'
  BY <1>0 DEF TypeInv, PhaseInv
<1>3. ListInv'
  BY <1>0 DEF TypeInv, PhaseInv, ListInv, Reported
<1>4. RowInv'
  BY <1>0 DEF TypeInv, PhaseInv, ListInv, RowInv
<1>5. AnswerInv'
  BY <1>0 DEF TypeInv, PhaseInv, ListInv, AnswerInv, Moved, Nobody, Solved, Codes
<1>6. FileInv'
  BY <1>0 DEF TypeInv, PhaseInv, ListInv, FileInv, InFlight, Solved, Codes
<1>7. CleanInv'
  BY <1>0 DEF TypeInv, PhaseInv, ListInv, CleanInv, Codes
<1> QED BY <1>1, <1>2, <1>3, <1>4, <1>5, <1>6, <1>7

LEMMA UnlinkKeeps ==
  ASSUME PortfolioInv, Unlink
  PROVE  PortfolioInv'
<1> USE EnginesAssumption DEF PortfolioInv, Unlink, setup, control, world, report,
       Launching, Answering, Reporting, Visiting, CleaningUp, Ended, Active
<1>0. First(walk) \subseteq walk /\ \A e, f \in First(walk) : e = f
  BY FirstFacts DEF TypeInv
<1>1. TypeInv'
  BY <1>0 DEF TypeInv, Engine, Solved, Codes, Files
<1>2. PhaseInv'
  BY <1>0 DEF TypeInv, PhaseInv
<1>3. ListInv'
  BY <1>0 DEF TypeInv, PhaseInv, ListInv, Reported
<1>4. RowInv'
  BY <1>0 DEF TypeInv, PhaseInv, ListInv, RowInv
<1>5. AnswerInv'
  BY <1>0 DEF TypeInv, PhaseInv, ListInv, AnswerInv, Moved, Nobody, Solved, Codes
<1>6. FileInv'
  BY <1>0 DEF TypeInv, PhaseInv, ListInv, FileInv, InFlight, Solved, Codes
<1>7. CleanInv'
  BY <1>0 DEF TypeInv, PhaseInv, ListInv, CleanInv, Codes
<1> QED BY <1>1, <1>2, <1>3, <1>4, <1>5, <1>6, <1>7

LEMMA ReadStderrKeeps ==
  ASSUME PortfolioInv, ReadStderr
  PROVE  PortfolioInv'
<1> USE EnginesAssumption DEF PortfolioInv, ReadStderr, setup, control, world, report,
       Launching, Answering, Reporting, Visiting, CleaningUp, Ended, Active
<1>0. First(walk) \subseteq walk /\ \A e, f \in First(walk) : e = f
  BY FirstFacts DEF TypeInv
<1>1. TypeInv'
  BY <1>0 DEF TypeInv, Engine, Solved, Codes, Files
<1>2. PhaseInv'
  BY <1>0 DEF TypeInv, PhaseInv
<1>3. ListInv'
  BY <1>0 DEF TypeInv, PhaseInv, ListInv, Reported
<1>4. RowInv'
  BY <1>0 DEF TypeInv, PhaseInv, ListInv, RowInv
<1>5. AnswerInv'
  BY <1>0 DEF TypeInv, PhaseInv, ListInv, AnswerInv, Moved, Nobody, Solved, Codes
<1>6. FileInv'
  BY <1>0 DEF TypeInv, PhaseInv, ListInv, FileInv, InFlight, Solved, Codes
<1>7. CleanInv'
  BY <1>0 DEF TypeInv, PhaseInv, ListInv, CleanInv, Codes
<1> QED BY <1>1, <1>2, <1>3, <1>4, <1>5, <1>6, <1>7

LEMMA CleanedUpKeeps ==
  ASSUME PortfolioInv, CleanedUp
  PROVE  PortfolioInv'
<1> USE EnginesAssumption DEF PortfolioInv, CleanedUp, setup, control, world, report,
       Launching, Answering, Reporting, Visiting, CleaningUp, Ended, Active
<1>0. First(processes) \subseteq processes
  BY FirstFacts DEF TypeInv
<1>1. TypeInv'
  BY <1>0 DEF TypeInv, Engine, Solved, Codes, Files
<1>2. PhaseInv'
  BY <1>0 DEF TypeInv, PhaseInv
<1>3. ListInv'
  BY <1>0 DEF TypeInv, PhaseInv, ListInv, Reported
<1>4. RowInv'
  BY <1>0 DEF TypeInv, PhaseInv, ListInv, RowInv
<1>5. AnswerInv'
  BY <1>0 DEF TypeInv, PhaseInv, ListInv, AnswerInv, Moved, Nobody, Solved, Codes
<1>6. FileInv'
  BY <1>0 DEF TypeInv, PhaseInv, ListInv, FileInv, InFlight, Solved, Codes
<1>7. CleanInv'
  BY <1>0 DEF TypeInv, PhaseInv, ListInv, CleanInv, Codes
<1> QED BY <1>1, <1>2, <1>3, <1>4, <1>5, <1>6, <1>7

LEMMA RaiseKeeps ==
  ASSUME PortfolioInv, NEW s \in {"UNSAT", "SIGNAL"}, ~Ended, Raise(s)
  PROVE  PortfolioInv'
<1> USE EnginesAssumption DEF PortfolioInv, Raise, Leave, setup, control, world, report,
       Launching, Answering, Reporting, Visiting, CleaningUp, Ended, Active
<1>1. TypeInv'
  BY DEF TypeInv, Engine, Solved, Codes, Files
<1>2. PhaseInv'
  BY DEF TypeInv, PhaseInv
<1>3. ListInv'
  BY DEF TypeInv, PhaseInv, ListInv, Reported
<1>4. RowInv'
  BY DEF TypeInv, PhaseInv, ListInv, RowInv
<1>5. AnswerInv'
  BY DEF TypeInv, PhaseInv, ListInv, AnswerInv, Moved, Nobody, Solved, Codes
<1>6. FileInv'
  BY DEF TypeInv, PhaseInv, ListInv, FileInv, InFlight, Solved, Codes
<1>7. CleanInv'
  BY DEF TypeInv, PhaseInv, ListInv, CleanInv, Codes
<1> QED BY <1>1, <1>2, <1>3, <1>4, <1>5, <1>6, <1>7

LEMMA KilledKeeps ==
  ASSUME PortfolioInv, Killed
  PROVE  PortfolioInv'
<1> USE EnginesAssumption DEF PortfolioInv, Killed, setup, control, world, report,
       Launching, Answering, Reporting, Visiting, CleaningUp, Ended, Active
<1>1. TypeInv'
  BY DEF TypeInv, Engine, Solved, Codes, Files
<1>2. PhaseInv'
  BY DEF TypeInv, PhaseInv
<1>3. ListInv'
  BY DEF TypeInv, PhaseInv, ListInv, Reported
<1>4. RowInv'
  BY DEF TypeInv, PhaseInv, ListInv, RowInv
<1>5. AnswerInv'
  BY DEF TypeInv, PhaseInv, ListInv, AnswerInv, Moved, Nobody, Solved, Codes
<1>6. FileInv'
  BY DEF TypeInv, PhaseInv, ListInv, FileInv, InFlight, Solved, Codes
<1>7. CleanInv'
  BY DEF TypeInv, PhaseInv, ListInv, CleanInv, Codes
<1> QED BY <1>1, <1>2, <1>3, <1>4, <1>5, <1>6, <1>7

LEMMA WriteWitnessKeeps ==
  ASSUME PortfolioInv, NEW e \in Engine, WriteWitness(e)
  PROVE  PortfolioInv'
<1> USE EnginesAssumption DEF PortfolioInv, WriteWitness, script, setup, control, world, report,
       Launching, Answering, Reporting, Visiting, CleaningUp, Ended, Active
<1>1. TypeInv'
  BY DEF TypeInv, Engine, Solved, Codes, Files
<1>2. PhaseInv'
  BY DEF TypeInv, PhaseInv
<1>3. ListInv'
  BY DEF TypeInv, PhaseInv, ListInv, Reported
<1>4. RowInv'
  BY DEF TypeInv, PhaseInv, ListInv, RowInv
<1>5. AnswerInv'
  BY DEF TypeInv, PhaseInv, ListInv, AnswerInv, Moved, Nobody, Solved, Codes
<1>6. FileInv'
  BY DEF TypeInv, PhaseInv, ListInv, FileInv, InFlight, Solved, Codes
<1>7. CleanInv'
  BY DEF TypeInv, PhaseInv, ListInv, CleanInv, Codes
<1> QED BY <1>1, <1>2, <1>3, <1>4, <1>5, <1>6, <1>7

LEMMA ExitKeeps ==
  ASSUME PortfolioInv, NEW e \in Engine, Exit(e)
  PROVE  PortfolioInv'
<1> USE EnginesAssumption DEF PortfolioInv, Exit, script, setup, control, world, report,
       Launching, Answering, Reporting, Visiting, CleaningUp, Ended, Active
<1>1. TypeInv'
  BY DEF TypeInv, Engine, Solved, Codes, Files
<1>2. PhaseInv'
  BY DEF TypeInv, PhaseInv
<1>3. ListInv'
  <2>1. proc'[e] # "NONE" /\ \A f \in Engine : f # e => proc'[f] = proc[f]
    BY DEF TypeInv, Solved
  <2>2. \A f \in Engine : Reported(f)' <=> Reported(f)
    BY DEF Reported
  <2>3. proc[e] \notin Codes
    BY DEF Codes, Solved
  <2> QED BY <2>1, <2>2, <2>3 DEF TypeInv, PhaseInv, ListInv
<1>4. RowInv'
  <2>1. \A k \in DOMAIN summary : summary[k] \in Engine \X Codes /\ summary[k][1] # e
    BY DEF TypeInv, RowInv, Codes, Solved
  <2>2. \A f \in Engine : f # e => proc'[f] = proc[f]
    BY DEF TypeInv
  <2> QED BY <2>1, <2>2 DEF RowInv
<1>5. AnswerInv'
  BY DEF TypeInv, PhaseInv, ListInv, AnswerInv, Moved, Nobody, Solved, Codes
<1>6. FileInv'
  BY DEF TypeInv, PhaseInv, ListInv, FileInv, InFlight, Solved, Codes
<1>7. CleanInv'
  BY DEF TypeInv, PhaseInv, ListInv, CleanInv, Codes
<1> QED BY <1>1, <1>2, <1>3, <1>4, <1>5, <1>6, <1>7

LEMMA TerminatedKeeps ==
  ASSUME PortfolioInv, NEW e \in Engine, Terminated(e)
  PROVE  PortfolioInv'
<1> USE EnginesAssumption DEF PortfolioInv, Terminated, script, setup, control, world, report,
       Launching, Answering, Reporting, Visiting, CleaningUp, Ended, Active
<1>1. TypeInv'
  BY DEF TypeInv, Engine, Solved, Codes, Files
<1>2. PhaseInv'
  BY DEF TypeInv, PhaseInv
<1>3. ListInv'
  <2>1. proc'[e] # "NONE" /\ \A f \in Engine : f # e => proc'[f] = proc[f]
    BY DEF TypeInv, Solved
  <2>2. \A f \in Engine : Reported(f)' <=> Reported(f)
    BY DEF Reported
  <2>3. proc[e] \notin Codes
    BY DEF Codes, Solved
  <2> QED BY <2>1, <2>2, <2>3 DEF TypeInv, PhaseInv, ListInv
<1>4. RowInv'
  <2>1. \A k \in DOMAIN summary : summary[k] \in Engine \X Codes /\ summary[k][1] # e
    BY DEF TypeInv, RowInv, Codes, Solved
  <2>2. \A f \in Engine : f # e => proc'[f] = proc[f]
    BY DEF TypeInv
  <2> QED BY <2>1, <2>2 DEF RowInv
<1>5. AnswerInv'
  BY DEF TypeInv, PhaseInv, ListInv, AnswerInv, Moved, Nobody, Solved, Codes
<1>6. FileInv'
  BY DEF TypeInv, PhaseInv, ListInv, FileInv, InFlight, Solved, Codes
<1>7. CleanInv'
  BY DEF TypeInv, PhaseInv, ListInv, CleanInv, Codes
<1> QED BY <1>1, <1>2, <1>3, <1>4, <1>5, <1>6, <1>7

LEMMA InvInit == Init => PortfolioInv
<1> SUFFICES ASSUME Init PROVE PortfolioInv
  OBVIOUS
<1> USE EnginesAssumption DEF Init
<1>1. TypeInv
  <2>1. 1 \in Engine /\ 0 \in 0..N
    BY EnginesAssumption DEF Engine
  <2>2. exiting \in BOOLEAN
    OBVIOUS
  <2>3. /\ processes \subseteq Engine /\ walk \subseteq Engine /\ signalled \subseteq Engine
        /\ status \in Solved \cup {"NONE", "UNKNOWN", "SIGNAL"}
    OBVIOUS
  <2>4. /\ proc \in [Engine -> {"NONE", "RUNNING"} \cup Codes]
        /\ temp \in [Engine -> Files]
        /\ summary \in Seq(Engine \X Codes)
    BY DEF Files
  <2>5. dumps \in BOOLEAN /\ verbose \in BOOLEAN /\ truth \in Solved
    OBVIOUS
  <2>6. name \in Engine /\ printed \in 0..N
    BY <2>1 DEF Nobody
  <2> QED BY <2>2, <2>3, <2>4, <2>5, <2>6 DEF TypeInv
<1>2. PhaseInv
  BY DEF PhaseInv, Launching, Ended, CleaningUp
<1>3. ListInv
  BY DEF ListInv, Launching, Answering, Reporting, Visiting, CleaningUp, Engine
<1>4. RowInv
  BY DEF RowInv, Launching, Answering, Reporting, CleaningUp
<1>5. AnswerInv
  BY DEF AnswerInv, Active, Answering, Solved, Nobody
<1>6. FileInv
  BY DEF FileInv, InFlight
<1>7. CleanInv
  BY DEF CleanInv, Engine
<1> QED BY <1>1, <1>2, <1>3, <1>4, <1>5, <1>6, <1>7 DEF PortfolioInv

LEMMA InvStep == PortfolioInv /\ [Next]_vars => PortfolioInv'
<1> SUFFICES ASSUME PortfolioInv, [Next]_vars
             PROVE  PortfolioInv'
  OBVIOUS
<1>1. CASE Script
  BY <1>1, CreateTempKeeps, StartKeeps, RecordKeeps, PollRunningKeeps, PollEndedKeeps,
     SummarizeKeeps, DeleteKeeps, NoneLeftKeeps, PrintOutputKeeps, RenameKeeps,
     OpenCopyKeeps, CopyKeeps, RemoveSourceKeeps, ReturnKeeps, TerminateKeeps,
     UnlinkKeeps, ReadStderrKeeps, CleanedUpKeeps
  DEF Script
<1>2. CASE Failure
  <2>1. CASE CallFails \/ Interrupt
    <3>1. ~Ended /\ \E s \in {"UNSAT", "SIGNAL"} : Raise(s)
      BY <2>1 DEF CallFails, Interrupt, Ended
    <3> QED BY <3>1, RaiseKeeps
  <2>2. CASE Killed
    BY <2>2, KilledKeeps
  <2> QED BY <1>2, <2>1, <2>2 DEF Failure
<1>3. ASSUME NEW e \in Engine, Process(e)
      PROVE  PortfolioInv'
  BY <1>3, WriteWitnessKeeps, ExitKeeps, TerminatedKeeps DEF Process
<1>4. CASE UNCHANGED vars
  <2> USE <1>4 DEF vars, setup, control, world, report, PortfolioInv, Active, Launching,
        Answering, Reporting, Visiting, CleaningUp, Ended
  <2>1. TypeInv' /\ PhaseInv'
    BY DEF TypeInv, PhaseInv
  <2>2. ListInv' /\ RowInv'
    BY DEF ListInv, RowInv, Reported
  <2>3. AnswerInv' /\ FileInv' /\ CleanInv'
    BY DEF AnswerInv, FileInv, CleanInv, InFlight, Moved, First
  <2> QED BY <2>1, <2>2, <2>3
<1> QED BY <1>1, <1>2, <1>3, <1>4 DEF Next

(* The script's dictionary, the walk of clean_up, the processes, their     *)
(* files and the report agree after every step, for any number of engines: *)
(* what is left to clean up is in the dictionary or in the walk, or was in *)
(* hand when an exception struck.                                          *)
THEOREM PortfolioInvariant == Spec => []PortfolioInv
  BY InvInit, InvStep, PTL DEF Spec

(* ReportIsOneEngines for any number of engines: whatever the processes do *)
(* between the steps of main, the output, the witness and the last row are *)
(* those of one engine, whose answer is right.                             *)
THEOREM ReportTheorem == Spec => []ReportIsOneEngines
<1>1. PortfolioInv => ReportIsOneEngines
  BY DEF PortfolioInv, TypeInv, RowInv, AnswerInv, ReportIsOneEngines, Last, Solved, Nobody
<1> QED BY <1>1, PortfolioInvariant, PTL

(* NothingLeftBehind for any number of engines, with an exception at any   *)
(* step of main and another one at any step of the atexit handler: what is *)
(* left was signalled, in hand when main was struck, or still in the walk  *)
(* that the second exception cut short.                                    *)
THEOREM CleanUpTheorem == Spec => []NothingLeftBehind
<1>1. PortfolioInv => NothingLeftBehind
  BY DEF PortfolioInv, PhaseInv, ListInv, CleanInv, NothingLeftBehind
<1> QED BY <1>1, PortfolioInvariant, PTL
==============================================================================
