---------------------------- MODULE BrandMemory ----------------------------
(***************************************************************************)
(* The memory of one brand: its core document and the overlay of one of    *)
(* its channels, each a versioned row with an entry in Redis, as read and  *)
(* edited by services/brand_memory.py behind routes/brand_memory.py.       *)
(*                                                                         *)
(* A request is one READ COMMITTED transaction cut at its statements and   *)
(* at its Redis commands, which take effect at once.                       *)
(***************************************************************************)
EXTENDS Naturals

CONSTANTS
    Requests,       \* slots for requests in flight
    MaxCalls,       \* bound: requests; also numbers the payloads
    MaxMatch        \* bound: the newest version that an edit may name

VARIABLES
    row,        \* committed row of each document
    cache,      \* entry of each document in Redis
    bound,      \* the channel is connected to the brand
    req, calls,
    raced       \* history: a read overlapped an edit of its document, or
                \* Redis missed the DEL of one

vars == <<row, cache, bound, req, calls, raced>>

Docs == {"core", "overlay"}

(* by: the call that wrote the payload, 0 for the empty one; ver 0: no row *)
Doc == [ver : 0..(MaxCalls + 1), by : 0..MaxCalls]
NoDoc == [ver |-> 0, by |-> 0]
Empty == [ver |-> 1, by |-> 0]

Answers == {"none", "ok", "conflict", "unbound", "error"}

(* op `read' and `effective' read, `edit' is a PATCH, `place' the empty    *)
(* overlay that a GET writes. match: if_match_version, 0 for none. copy:   *)
(* the row as loaded; new: as written and not committed. alone: history,   *)
(* no other edit of the document has been between its load and its end.    *)
(* seen: history, the channel was connected at some time of the request.   *)
Request == [op : {"read", "effective", "edit", "place"}, doc : Docs, match : 0..MaxMatch,
            pc : {"idle", "binding", "get", "select", "insert", "set", "load", "create",
                  "check", "update", "del", "commit"},
            copy : Doc, new : Doc, by : 0..MaxCalls, alone : BOOLEAN, seen : BOOLEAN,
            answer : Answers]

Fresh(op, d, m) == [op |-> op, doc |-> d, match |-> m, pc |-> "idle", copy |-> NoDoc,
                    new |-> NoDoc, by |-> 0, alone |-> TRUE, seen |-> FALSE,
                    answer |-> "none"]

Init ==
    /\ row = [d \in Docs |-> NoDoc]
    /\ cache = [d \in Docs |-> NoDoc]
    /\ bound \in BOOLEAN
    /\ req = [r \in Requests |-> Fresh("read", "core", 0)]
    /\ calls = 0 /\ raced = FALSE

Goto(r, pc) == req' = [req EXCEPT ![r].pc = pc]

(* The end of a request; without a commit the transaction rolls back.      *)
Answer(r, answer) ==
    req' = [req EXCEPT ![r] = [Fresh("read", @.doc, 0) EXCEPT !.seen = req[r].seen, !.answer = answer]]

Writer(r) == req[r].op \in {"edit", "place"}

Editing(r) == Writer(r) /\ req[r].pc \in {"create", "check", "update", "del", "commit"}

(* The document a request writes: an effective memory goes on from the core*)
(* to the overlay.                                                         *)
Written(r) == IF req[r].op = "effective" THEN "core" ELSE req[r].doc

(* Another transaction has written the document and not committed.         *)
Held(r) == \E q \in Requests \ {r} : req[q].new # NoDoc /\ Written(q) = req[r].doc

First(op, d) == IF d = "overlay" THEN "binding" ELSE IF op = "edit" THEN "load" ELSE "get"

Start(r, op, d, m) ==
    /\ req[r].pc = "idle" /\ calls < MaxCalls
    /\ calls' = calls + 1
    /\ op = "effective" => d = "core"
    /\ op # "edit" => m = 0
    /\ req' = [req EXCEPT ![r] = [Fresh(op, d, m) EXCEPT !.pc = First(op, d), !.seen = bound,
                                                         !.by = IF op = "edit" THEN calls' ELSE 0]]
    /\ UNCHANGED <<row, cache, bound, raced>>

-----------------------------------------------------------------------------
(* get_core, get_overlay, get_effective                                    *)

(* _ensure_channel_bound                                                   *)
EnsureChannelBound(r) ==
    /\ req[r].pc = "binding"
    /\ IF ~bound THEN Answer(r, "unbound")
       ELSE Goto(r, IF Writer(r) THEN "load" ELSE "get")
    /\ UNCHANGED <<row, cache, bound, calls, raced>>

(* What follows a document read: the overlay of an effective memory, if    *)
(* the channel was named, or the commit.                                   *)
Read(r) ==
    IF req[r].op = "effective" /\ req[r].doc = "core"
    THEN req' = [req EXCEPT ![r].pc = "binding", ![r].doc = "overlay"] \/ Goto(r, "commit")
    ELSE Goto(r, "commit")

(* A GET that fails counts as a miss.                                      *)
CacheGet(r) ==
    /\ req[r].pc = "get"
    /\ \/ cache[req[r].doc] # NoDoc /\ Read(r)
       \/ Goto(r, "select")
    /\ UNCHANGED <<row, cache, bound, calls, raced>>

(* _load_core_row, _load_overlay_row. A missing overlay is no overlay for  *)
(* an effective memory; a GET of it goes on as update_overlay of {}.       *)
Select(r) ==
    LET d == req[r].doc IN
    /\ req[r].pc = "select"
    /\ CASE row[d] # NoDoc -> req' = [req EXCEPT ![r].pc = "set", ![r].copy = row[d]]
         [] row[d] = NoDoc /\ d = "core" -> Goto(r, "insert")
         [] row[d] = NoDoc /\ d = "overlay" /\ req[r].op = "effective" -> Goto(r, "commit")
         [] OTHER -> req' = [req EXCEPT ![r].pc = "binding", ![r].op = "place"]
    /\ raced' = (raced \/ \E q \in Requests : Editing(q) /\ req[q].doc = d)
    /\ UNCHANGED <<row, cache, bound, calls>>

(* The INSERT of the empty core waits for another one; if that commits,    *)
(* IntegrityError, which nothing catches.                                  *)
Materialise(r) ==
    /\ req[r].pc = "insert" /\ ~Held(r)
    /\ IF row["core"] # NoDoc THEN Answer(r, "error")
       ELSE req' = [req EXCEPT ![r].pc = "set", ![r].copy = Empty, ![r].new = Empty]
    /\ UNCHANGED <<row, cache, bound, calls, raced>>

(* SET ... EX, best effort, before the commit.                             *)
CacheSet(r) ==
    /\ req[r].pc = "set"
    /\ \/ cache' = [cache EXCEPT ![req[r].doc] = req[r].copy]
       \/ UNCHANGED cache
    /\ Read(r)
    /\ UNCHANGED <<row, bound, calls, raced>>

Expire(d) ==
    /\ cache[d] # NoDoc
    /\ cache' = [cache EXCEPT ![d] = NoDoc]
    /\ UNCHANGED <<row, bound, req, calls, raced>>

-----------------------------------------------------------------------------
(* update_core, update_overlay                                             *)

(* The edit is loaded: from here it overlaps the others of its document.   *)
Loaded(r, pc, copy) ==
    LET others == {q \in Requests \ {r} : Editing(q) /\ req[q].doc = req[r].doc} IN
    req' = [q \in Requests |->
              IF q = r THEN [req[r] EXCEPT !.pc = pc, !.copy = copy, !.alone = others = {}]
              ELSE [req[q] EXCEPT !.alone = @ /\ q \notin others]]

Load(r) ==
    LET d == req[r].doc IN
    /\ req[r].pc = "load"
    /\ Loaded(r, IF row[d] = NoDoc THEN "create" ELSE "check", row[d])
    /\ raced' = (raced \/ \E q \in Requests : req[q].pc = "set" /\ req[q].doc = d)
    /\ UNCHANGED <<row, cache, bound, calls>>

(* The first write: an empty core, which is then edited like any other; an *)
(* overlay with its payload, whatever version the caller named.            *)
Create(r) ==
    /\ req[r].pc = "create" /\ ~Held(r)
    /\ IF row[req[r].doc] # NoDoc THEN Answer(r, "error")
       ELSE IF req[r].doc = "core"
       THEN req' = [req EXCEPT ![r].pc = "check", ![r].copy = Empty, ![r].new = Empty]
       ELSE req' = [req EXCEPT ![r].pc = "del", ![r].new = [ver |-> 1, by |-> req[r].by]]
    /\ UNCHANGED <<row, cache, bound, calls, raced>>

(* Fault: the caller's version is compared with the cached one.            *)
CheckCached(r) ==
    LET c == cache[req[r].doc]  known == IF c = NoDoc THEN req[r].copy ELSE c IN
    /\ req[r].pc = "check"
    /\ IF req[r].match \notin {0, known.ver} THEN Answer(r, "conflict") ELSE Goto(r, "update")
    /\ UNCHANGED <<row, cache, bound, calls, raced>>

Check(r) ==
    /\ req[r].pc = "check"
    /\ IF req[r].match \notin {0, req[r].copy.ver} THEN Answer(r, "conflict")
       ELSE Goto(r, "update")
    /\ UNCHANGED <<row, cache, bound, calls, raced>>

(* The UPDATE waits for another one and then overwrites it: the version is *)
(* one more than the loaded copy's.                                        *)
Update(r) ==
    /\ req[r].pc = "update" /\ ~Held(r)
    /\ req' = [req EXCEPT ![r].pc = "del",
                          ![r].new = [ver |-> req[r].copy.ver + 1, by |-> req[r].by]]
    /\ UNCHANGED <<row, cache, bound, calls, raced>>

(* Fault: the entry is left for the TTL.                                   *)
CacheDeleteSkipped(r) ==
    /\ req[r].pc = "del"
    /\ Goto(r, "commit")
    /\ UNCHANGED <<row, cache, bound, calls, raced>>

(* The DEL, best effort, before the commit.                                *)
CacheDelete(r) ==
    /\ req[r].pc = "del"
    /\ \/ cache' = [cache EXCEPT ![req[r].doc] = NoDoc] /\ UNCHANGED raced
       \/ raced' = TRUE /\ UNCHANGED cache
    /\ Goto(r, "commit")
    /\ UNCHANGED <<row, bound, calls>>

-----------------------------------------------------------------------------

Commit(r) ==
    /\ req[r].pc = "commit"
    /\ row' = IF req[r].new = NoDoc THEN row ELSE [row EXCEPT ![Written(r)] = req[r].new]
    /\ Answer(r, "ok")
    /\ UNCHANGED <<cache, bound, calls, raced>>

(* A statement fails or the process stops.                                 *)
Abort(r) ==
    /\ req[r].pc # "idle"
    /\ Answer(r, "none")
    /\ UNCHANGED <<row, cache, bound, calls, raced>>

(* The channel is detached or reconnected.                                 *)
Rebind ==
    /\ bound' = ~bound
    /\ req' = [r \in Requests |-> IF req[r].pc = "idle" THEN req[r]
                                  ELSE [req[r] EXCEPT !.seen = @ \/ bound']]
    /\ UNCHANGED <<row, cache, calls, raced>>

Next ==
    \/ \E r \in Requests :
        \/ \E op \in {"read", "effective", "edit"}, d \in Docs, m \in 0..MaxMatch :
             Start(r, op, d, m)
        \/ EnsureChannelBound(r) \/ CacheGet(r) \/ Select(r) \/ Materialise(r)
        \/ CacheSet(r) \/ Load(r) \/ Create(r) \/ Check(r) \/ Update(r)
        \/ CacheDelete(r) \/ Commit(r) \/ Abort(r)
    \/ \E d \in Docs : Expire(d)
    \/ Rebind

Spec == Init /\ [][Next]_vars

-----------------------------------------------------------------------------
(* Types.                                                                  *)
TypeOK ==
    /\ row \in [Docs -> Doc] /\ cache \in [Docs -> Doc] /\ bound \in BOOLEAN
    /\ req \in [Requests -> Request] /\ calls \in 0..MaxCalls /\ raced \in BOOLEAN

(* An entry is the committed row, during an edit too, or the empty core of *)
(* a read that rolled back, unless a read overlapped an edit or Redis      *)
(* missed a DEL.                                                           *)
EntryIsCurrent ==
    \A d \in Docs :
        \/ raced \/ cache[d] \in {NoDoc, row[d]}
        \/ row[d] = NoDoc /\ cache[d] = Empty /\ d = "core"

(* An edit that overlapped no other edit of its document replaces the very *)
(* version its author named and raises it, however old the cached copy he  *)
(* was shown.                                                              *)
EditReplacesNamed ==
    [][\A r \in Requests :
         LET q == req[r]  old == row[q.doc] IN
         /\ Editing(r) /\ q.alone /\ req'[r].pc = "idle" /\ req'[r].answer = "ok"
         => row'[q.doc].ver > old.ver /\ (old # NoDoc => q.match \in {0, old.ver})]_vars

(* services/brand_memory.py: "a cross-brand / detached binding short-      *)
(* circuits": an overlay, cached or not, is shown or edited only by a      *)
(* request during which its channel was connected.                         *)
OverlayOnlyWhileBound ==
    \A r \in Requests : req[r].answer = "ok" /\ req[r].doc = "overlay" => req[r].seen

MemoryHolds == EntryIsCurrent /\ OverlayOnlyWhileBound

=============================================================================
