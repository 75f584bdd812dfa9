----------------------------- MODULE Embeddings -----------------------------
(***************************************************************************)
(* The embedding of one channel post: EmbeddingsService.embed_channel_post *)
(* (services/embeddings.py) run by the Celery task channel.embed_post      *)
(* (workers/tasks/embed_channel_post.py, acks_late: two workers may have   *)
(* the same message). A text and its vector are the text's revision.       *)
(* The table is the one migration 0011 makes on PostgreSQL, whose unique   *)
(* key holds the transaction's created_at besides post and model.          *)
(***************************************************************************)
EXTENDS Naturals, FiniteSets

CONSTANTS
    Workers,        \* slots for task messages in flight
    MAX_RETRIES,
    MaxText,        \* bound: revisions of the post's text
    MaxTasks        \* bound: deliveries of task messages

VARIABLES
    text,       \* the post's text; 0: no such post, or nothing but blanks
    bound,      \* some workspace has an active binding to the channel
    rows,       \* the committed row each slot has inserted for (post, model); 0: none
    work,       \* the task messages, each with the attempt it is in
    tasks,      \* deliveries so far
    overlapped  \* history: two attempts have run at once

vars == <<text, bound, rows, work, tasks, overlapped>>

(* text: what the attempt read. row: the slot whose row it writes.         *)
Attempt == [pc : {"idle", "queued", "bind", "embed", "select", "insert", "update",
                  "commit"},
            text : 0..MaxText, retries : 0..MAX_RETRIES, row : Workers,
            outcome : {"none", "done", "skipped", "failed"}]

Over(w, outcome) == [pc |-> "idle", text |-> 0, retries |-> 0, row |-> w,
                     outcome |-> outcome]

Running(w) == work[w].pc \notin {"idle", "queued"}
Rows == {w \in Workers : rows[w] # 0}

Init ==
    /\ text \in 0..1
    /\ bound \in BOOLEAN
    /\ rows = [w \in Workers |-> 0]
    /\ work = [w \in Workers |-> Over(w, "none")]
    /\ tasks = 0
    /\ overlapped = FALSE

(* An edit of the post, or its arrival: TouchAndPublish of Ingest.         *)
EditPost == /\ text < MaxText /\ text' = text + 1
            /\ UNCHANGED <<bound, rows, work, tasks, overlapped>>

BindOrDetach == /\ bound' = ~bound
                /\ UNCHANGED <<text, rows, work, tasks, overlapped>>

Finish(w, outcome) == work' = [work EXCEPT ![w] = Over(w, outcome)]
Step(w, pc) == work' = [work EXCEPT ![w].pc = pc]

(* The attempt's text, if there is any.                                    *)
Read(w, retries) ==
    /\ IF text = 0 THEN Finish(w, "skipped")
       ELSE work' = [work EXCEPT ![w] = [Over(w, "none") EXCEPT !.pc = "bind", !.text = text,
                                                             !.retries = retries]]
    /\ overlapped' = (overlapped \/ \E v \in Workers \ {w} : Running(v))
    /\ UNCHANGED <<text, bound, rows>>

Deliver(w) ==
    /\ work[w].pc = "idle" /\ tasks < MaxTasks
    /\ tasks' = tasks + 1
    /\ Read(w, 0)

(* Fault: the retry embeds the text of the first attempt.                  *)
RetryOldText(w) ==
    /\ work[w].pc = "queued"
    /\ Step(w, "bind")
    /\ overlapped' = (overlapped \/ \E v \in Workers \ {w} : Running(v))
    /\ UNCHANGED <<text, bound, rows, tasks>>

(* The queued message, in a session of its own.                            *)
Retry(w) ==
    /\ work[w].pc = "queued"
    /\ Read(w, work[w].retries)
    /\ UNCHANGED tasks

FirstActiveBinding(w) ==
    /\ work[w].pc = "bind"
    /\ IF bound THEN Step(w, "embed") ELSE Finish(w, "skipped")
    /\ UNCHANGED <<text, bound, rows, tasks, overlapped>>

(* The provider: a vector; a transient failure, retried MAX_RETRIES times  *)
(* at most; or one that is final (LLMProviderError, a wrong dimension).    *)
Embed(w) ==
    /\ work[w].pc = "embed"
    /\ \/ Step(w, "select")
       \/ /\ work[w].retries < MAX_RETRIES
          /\ work' = [work EXCEPT ![w].pc = "queued", ![w].retries = @ + 1]
       \/ Finish(w, "failed")
    /\ UNCHANGED <<text, bound, rows, tasks, overlapped>>

(* Fault: the look-up misses the row.                                      *)
FindExistingMissed(w) ==
    /\ work[w].pc = "select"
    /\ Step(w, "insert")
    /\ UNCHANGED <<text, bound, rows, tasks, overlapped>>

(* _find_existing: scalar_one_or_none raises if there is more than one.    *)
FindExisting(w) ==
    /\ work[w].pc = "select"
    /\ CASE Rows = {} -> Step(w, "insert")
         [] Cardinality(Rows) > 1 -> Finish(w, "failed")
         [] OTHER -> \E v \in Rows : work' = [work EXCEPT ![w].pc = "update", ![w].row = v]
    /\ UNCHANGED <<text, bound, rows, tasks, overlapped>>

(* The INSERT meets no other worker's row, its created_at is another: the  *)
(* IntegrityError the code falls back on does not come.                    *)
InsertRow(w) ==
    /\ work[w].pc = "insert"
    /\ work' = [work EXCEPT ![w].pc = "commit", ![w].row = w]
    /\ UNCHANGED <<text, bound, rows, tasks, overlapped>>

(* The UPDATE by id waits for another of the same row.                     *)
UpdateRow(w) ==
    /\ work[w].pc = "update"
    /\ \A v \in Workers \ {w} : work[v].pc = "commit" => work[v].row # work[w].row
    /\ Step(w, "commit")
    /\ UNCHANGED <<text, bound, rows, tasks, overlapped>>

Commit(w) ==
    /\ work[w].pc = "commit"
    /\ rows' = [rows EXCEPT ![work[w].row] = work[w].text]
    /\ Finish(w, "done")
    /\ UNCHANGED <<text, bound, tasks, overlapped>>

(* acks_late: the worker stops, and its message goes to another one.       *)
WorkerLost(w) ==
    /\ Running(w) /\ tasks < MaxTasks
    /\ tasks' = tasks + 1
    /\ Step(w, "queued")
    /\ UNCHANGED <<text, bound, rows, overlapped>>

Attempting(w) ==
    \/ Retry(w) \/ FirstActiveBinding(w) \/ Embed(w) \/ FindExisting(w)
    \/ InsertRow(w) \/ UpdateRow(w) \/ Commit(w)

Next ==
    \/ EditPost \/ BindOrDetach
    \/ \E w \in Workers : Deliver(w) \/ Attempting(w) \/ WorkerLost(w)

Spec == Init /\ [][Next]_vars

-----------------------------------------------------------------------------
(* Types.                                                                  *)
TypeOK ==
    /\ text \in 0..MaxText /\ rows \in [Workers -> 0..MaxText]
    /\ bound \in BOOLEAN /\ overlapped \in BOOLEAN
    /\ work \in [Workers -> Attempt]
    /\ tasks \in 0..MaxTasks

(* models/channel_post_embedding.py: "One embedding row per                *)
(* ``(channel_post_id, model)`` pair".                                     *)
OneRow == Cardinality(Rows) <= 1

(* That much holds while attempts do not overlap, whatever is retried,     *)
(* redelivered, rebound or lost in between: no retry adds a second row,    *)
(* which would make every later attempt fail.                              *)
OneRowAlone == overlapped \/ OneRow

(* The vector goes back to an older text only if two attempts overlapped;  *)
(* a retry that waited out a newer task does not bring the old text back.  *)
NoOldVector == [][\A w \in Workers : rows'[w] >= rows[w] \/ overlapped]_vars

=============================================================================
