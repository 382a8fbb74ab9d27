---------------------------- MODULE SessionStore ----------------------------
(***************************************************************************)
(* What the SessionStore trait of swink-agent-memory promises of one       *)
(* session, without files: a write takes effect as a whole or not at all,  *)
(* an append adds its batch at the end, and a save replaces the records it *)
(* owns only when the saver holds the current sequence number.  SessionLog *)
(* implements this with an in-place append protocol and atomic rewrites.   *)
(***************************************************************************)
EXTENDS Naturals, Sequences

CONSTANTS Clients,
          None,      \* no session, or no sequence number held
          Batches    \* the batches of records an append may add

VARIABLES session,   \* None, or [seq, records]
          held       \* per client: None, or the sequence number it holds

storeVars == <<session, held>>

StoreInit == session = None /\ held = [c \in Clients |-> None]

OfKinds(records, K) == SelectSeq(records, LAMBDA r : r.kind \in K)

(* append and append_entries: the whole batch, at the end. *)
AppendBatch ==
  /\ session # None /\ session' # None
  /\ session'.seq = session.seq + 1
  /\ \E b \in Batches : session'.records = session.records \o b
  /\ UNCHANGED held

(* save, save_full (own messages and custom records) and save_entries (own *)
(* messages and entries): what they do not own survives; the state is kept *)
(* or replaced as one value.                                               *)
Replace(c, own) ==
  /\ session' # None
  /\ session # None =>
       /\ held[c] = session.seq
       /\ session'.seq = session.seq + 1
       /\ OfKinds(session'.records, {"message", "custom", "entry"} \ own)
            = OfKinds(session.records, {"message", "custom", "entry"} \ own)
  /\ Len(OfKinds(session'.records, {"state"})) <= 1
  /\ UNCHANGED held

(* save_state: one state value, everything else as it was. *)
SetState ==
  /\ session # None /\ session' # None
  /\ session'.seq = session.seq + 1
  /\ OfKinds(session'.records, {"message", "custom", "entry"})
       = OfKinds(session.records, {"message", "custom", "entry"})
  /\ Len(OfKinds(session'.records, {"state"})) = 1
  /\ UNCHANGED held

Remove == session # None /\ session' = None /\ UNCHANGED held

(* A load, or the answer to a write, gives a client the current sequence    *)
(* number; a crash takes every number away.                                *)
Learn(c) ==
  /\ session # None
  /\ held' = [held EXCEPT ![c] = session.seq]
  /\ UNCHANGED session

Forget == held' = [c \in Clients |-> None] /\ UNCHANGED session

StoreNext ==
  \/ AppendBatch \/ SetState \/ Remove \/ Forget
  \/ \E c \in Clients :
       \/ Learn(c)
       \/ Replace(c, {"message", "custom"})
       \/ Replace(c, {"message", "entry"})

StoreSpec == StoreInit /\ [][StoreNext]_storeVars
=============================================================================
