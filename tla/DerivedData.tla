---------------------------- MODULE DerivedData ----------------------------
(***************************************************************************)
(* Data that follows other data: the posts of a channel follow Telegram,   *)
(* the embedding of a post its text, the cached membership the row, a      *)
(* browser tab the events. Four modules that share no variable and run     *)
(* side by side; a behaviour is one of the four, `part', since what the    *)
(* others do in between makes no difference to it.                         *)
(***************************************************************************)
EXTENDS Ingest

CONSTANTS
    Workers, MAX_RETRIES, MaxText, MaxTasks,    \* Embeddings
    Readers, Writers, Roles, MaxWrites,         \* Memberships
    Sockets, Pool, MaxEvents                    \* EventStream

VARIABLES
    part,
    text, bound, embedded, work, tasks, overlapped,     \* Embeddings
    row, cache, reader, writer, writes, raced,          \* Memberships
    client, handler, inbox, events                      \* EventStream

(* Bounds that are numbers.                                                *)
ASSUME DerivedDataAssumption ==
    /\ MAX_RETRIES \in Nat /\ MaxText \in Nat \ {0} /\ MaxTasks \in Nat
    /\ MaxWrites \in Nat

Emb == INSTANCE Embeddings WITH rows <- embedded

Mbr == INSTANCE Memberships

Ws == INSTANCE EventStream

embVars == <<text, bound, embedded, work, tasks, overlapped>>
memVars == <<row, cache, reader, writer, writes, raced>>
wsVars == <<client, handler, inbox, events>>

dataVars == <<part, vars, embVars, memVars, wsVars>>

(* What is undetermined at the start of a part is so in that part only.    *)
DataInit ==
    /\ Init /\ Emb!Init /\ Mbr!Init /\ Ws!Init
    /\ part \in {"posts", "embedding", "membership", "stream"}
    /\ part # "embedding" => text = 0 /\ ~bound
    /\ part # "membership" => row = Mbr!None

DataNext ==
    /\ \/ part = "posts" /\ Next /\ UNCHANGED <<embVars, memVars, wsVars>>
       \/ part = "embedding" /\ Emb!Next /\ UNCHANGED <<vars, memVars, wsVars>>
       \/ part = "membership" /\ Mbr!Next /\ UNCHANGED <<vars, embVars, wsVars>>
       \/ part = "stream" /\ Ws!Next /\ UNCHANGED <<vars, embVars, memVars>>
    /\ UNCHANGED part

DataSpec == DataInit /\ [][DataNext]_dataVars

FairDataSpec == DataSpec /\ Fairness /\ Mbr!Fairness /\ Ws!Fairness

-----------------------------------------------------------------------------

(* While attempts do not overlap, no retry, redelivery or lost worker adds *)
(* a second row, which would make every later attempt fail.                *)
OneRowAlone == Emb!OneRowAlone

(* The vector goes back to an older text only if two attempts overlapped;  *)
(* a retry that waited out a newer task does not bring the old text back.  *)
NoOldVector == Emb!NoOldVector

(* Between changes the cached membership is the committed one, unless a    *)
(* reader filled it across a change or Redis missed the DEL.               *)
FreshUnlessRaced == Mbr!FreshUnlessRaced

(* api/deps.py: "a revoked invite is rejected within the cache TTL": what- *)
(* ever raced, once the changes stop the requests come to act on the role  *)
(* in the table, for good.                                                 *)
ChangeTakesHold == Mbr!ChangeTakesHold

(* A handler whose tab has gone comes to hold neither a subscription nor a *)
(* connection of the pool.                                                 *)
StreamLetsGo == Ws!StreamLetsGo

=============================================================================
