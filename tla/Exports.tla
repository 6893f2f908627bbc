------------------------------ MODULE Exports -------------------------------
(***************************************************************************)
(* Printing a trip (export_service.py): a request writes a task that is    *)
(* RUNNING, hands it to export_pool or, when that is full, prints it       *)
(* itself; whoever prints reads the trip, writes the file and ends the     *)
(* task.  The page asks for the task until it has ended or a minute has    *)
(* passed (waitForExport of sinan.ts).                                     *)
(***************************************************************************)
EXTENDS Naturals, FiniteSets

CONSTANTS
  Exports,      \* tasks, one for every request
  PrintSlots,   \* EXPORT_SLOTS: tasks that print or wait for it in the pool
  Printers,     \* threads of export_pool
  MaxMishaps    \* bound: statements of the database and events that fail, deaths of the process

ASSUME ExportsAssumption == {PrintSlots, Printers, MaxMishaps} \subseteq Nat

VARIABLES
  task,     \* the rows: [status, path]
  print,    \* who prints: [at, inline]; at "none": nobody yet or any more
  file,     \* the files: "none", "partial" or "whole"
  printed,  \* what the page knows: "idle", "asking", "polling", "status", "ready", "failed", "late"
  known,    \* the status a poll has read before it reads the row again (get_task)
  removed,  \* the trip is deleted
  mishaps,  \* bound
  orphans   \* for the property: tasks whose printer died, or could not even write that it failed

exportVars == <<task, print, file, printed, known, removed, mishaps, orphans>>

ExportInit ==
  /\ task = [e \in Exports |-> [status |-> "none", path |-> FALSE]]
  /\ print = [e \in Exports |-> [at |-> "none", inline |-> FALSE]]
  /\ file = [e \in Exports |-> "none"]
  /\ printed = [e \in Exports |-> "idle"]
  /\ known = [e \in Exports |-> "none"]
  /\ removed = FALSE /\ mishaps = 0 /\ orphans = {}

PrintGoes(e, where) == print' = [print EXCEPT ![e].at = where]
Mishap == mishaps < MaxMishaps /\ mishaps' = mishaps + 1
Taken == {e \in Exports : print[e].at # "none" /\ ~print[e].inline /\ print[e].at # "insert"}
Busily == {e \in Taken : print[e].at # "queued"}

-----------------------------------------------------------------------------
(* create_pdf *)

\* require_main, _insert_task: a transaction each.
InsertTask(e) ==
  /\ printed[e] = "idle" /\ printed' = [printed EXCEPT ![e] = "asking"]
  /\ ~removed
  /\ task' = [task EXCEPT ![e].status = "RUNNING"]
  /\ PrintGoes(e, "insert")
  /\ UNCHANGED <<file, known, removed, mishaps, orphans>>

\* _render_or_inline.  Variant: a task the pool refuses is dropped.
InlineNever(e) == [at |-> "none", inline |-> TRUE]
Inline(e) == [at |-> "model", inline |-> TRUE]
HandToPool(e) ==
  /\ print[e].at = "insert"
  /\ IF Cardinality(Taken) < PrintSlots
     THEN PrintGoes(e, "queued") /\ printed' = [printed EXCEPT ![e] = "polling"]
     ELSE print' = [print EXCEPT ![e] = Inline(e)] /\ UNCHANGED printed
  /\ UNCHANGED <<task, file, known, removed, mishaps, orphans>>
TakeQueued(e) ==
  /\ print[e].at = "queued" /\ Cardinality(Busily) < Printers
  /\ PrintGoes(e, "model")
  /\ UNCHANGED <<task, file, printed, known, removed, mishaps, orphans>>

-----------------------------------------------------------------------------
(* render_pdf *)

\* build_model reads header, days and budget in one transaction; a trip that is gone raises.
ReadModel(e) ==
  /\ print[e].at = "model"
  /\ \/ PrintGoes(e, IF removed THEN "fail" ELSE "file") /\ UNCHANGED mishaps
     \/ Mishap /\ PrintGoes(e, "fail")
  /\ UNCHANGED <<task, file, printed, known, removed, orphans>>
\* _ensure_font, build_pdf: a missing font or a full disk raises, the latter with a torso.
WriteFile(e) ==
  /\ print[e].at = "file"
  /\ \/ file' = [file EXCEPT ![e] = "whole"] /\ PrintGoes(e, "row")
     \/ \E f \in {"none", "partial"} : file' = [file EXCEPT ![e] = f] /\ PrintGoes(e, "fail")
  /\ UNCHANGED <<task, printed, known, removed, mishaps, orphans>>
\* The answer of a request that prints itself is read after its task has ended.
PrintAnswered(e) ==
  printed' = IF print[e].inline /\ printed[e] = "asking"
             THEN [printed EXCEPT ![e] = IF task'[e].status = "DONE" THEN "ready" ELSE "polling"] ELSE printed
FinishTask(e) ==
  /\ print[e].at = "row"
  /\ \/ task' = [task EXCEPT ![e] = [status |-> "DONE", path |-> TRUE]] /\ PrintGoes(e, "tell") /\ UNCHANGED mishaps
     \/ Mishap /\ PrintGoes(e, "fail") /\ UNCHANGED task
  /\ UNCHANGED <<file, printed, known, removed, orphans>>
\* export_done: the event of a task that has ended is sent inside the same try; if that
\* raises, the task is marked FAILED after all, and keeps its path.
TellDone(e) ==
  /\ print[e].at = "tell"
  /\ \/ PrintGoes(e, "none") /\ UNCHANGED task /\ PrintAnswered(e) /\ UNCHANGED mishaps
     \/ Mishap /\ PrintGoes(e, "fail") /\ UNCHANGED <<task, printed>>
  /\ UNCHANGED <<file, known, removed, orphans>>
FailTask(e) ==
  /\ print[e].at = "fail"
  /\ \/ task' = [task EXCEPT ![e].status = "FAILED"] /\ PrintGoes(e, "none") /\ PrintAnswered(e) /\ UNCHANGED <<mishaps, orphans>>
     \/ /\ Mishap /\ PrintGoes(e, "none") /\ orphans' = orphans \cup {e} /\ UNCHANGED task
        /\ printed' = IF print[e].inline THEN [printed EXCEPT ![e] = "failed"] ELSE printed
  /\ UNCHANGED <<file, known, removed>>

\* The process dies: what it printed stays as it is, and nobody looks for it afterwards.
PrintersDie ==
  /\ Mishap
  /\ orphans' = orphans \cup {e \in Exports : print[e].at # "none"}
  /\ file' = [e \in Exports |-> IF print[e].at = "file" THEN "partial" ELSE file[e]]
  /\ print' = [e \in Exports |-> [at |-> "none", inline |-> FALSE]]
  /\ printed' = [e \in Exports |-> IF printed[e] \in {"asking", "status"} THEN "failed" ELSE printed[e]]
  /\ UNCHANGED <<task, known, removed>>
RemoveTrip == ~removed /\ removed' = TRUE /\ UNCHANGED <<task, print, file, printed, known, mishaps, orphans>>

-----------------------------------------------------------------------------
(* waitForExport and get_task, which reads the status and then the row again. *)

ReadStatus(e) ==
  /\ printed[e] = "polling" /\ printed' = [printed EXCEPT ![e] = "status"]
  /\ known' = [known EXCEPT ![e] = task[e].status]
  /\ UNCHANGED <<task, print, file, removed, mishaps, orphans>>
\* The address is in the answer only if the first read saw DONE; the page makes it up otherwise.
AnswerPoll(e) ==
  /\ printed[e] = "status"
  /\ printed' = [printed EXCEPT ![e] =
       CASE task[e].status = "DONE" -> "ready" [] task[e].status = "FAILED" -> "failed" [] OTHER -> "polling"]
  /\ known' = [known EXCEPT ![e] = "none"]
  /\ UNCHANGED <<task, print, file, removed, mishaps, orphans>>
GiveUpWaiting(e) ==
  /\ printed[e] = "polling" /\ printed' = [printed EXCEPT ![e] = "late"]
  /\ UNCHANGED <<task, print, file, known, removed, mishaps, orphans>>

ExportNext ==
  \/ RemoveTrip \/ PrintersDie
  \/ \E e \in Exports :
       \/ InsertTask(e) \/ HandToPool(e) \/ TakeQueued(e) \/ ReadModel(e) \/ WriteFile(e)
       \/ FinishTask(e) \/ TellDone(e) \/ FailTask(e) \/ ReadStatus(e) \/ AnswerPoll(e) \/ GiveUpWaiting(e)

ExportSpec == ExportInit /\ [][ExportNext]_exportVars

-----------------------------------------------------------------------------
(* Properties. *)

\* A full pool loses no task, and what is offered for download is a whole file: a RUNNING
\* task has somebody who will end it, unless the process died or the database failed twice
\* (export_service.py:79-85, 88-115); nobody is told "ready" before the file is there.
ExportIsKept ==
  \A e \in Exports :
    /\ task[e].status = "RUNNING" => print[e].at # "none" \/ e \in orphans
    /\ task[e].status = "DONE" \/ printed[e] = "ready" => file[e] = "whole" /\ task[e].path
=============================================================================
