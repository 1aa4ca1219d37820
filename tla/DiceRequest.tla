---------------------------- MODULE DiceRequest ----------------------------
(***************************************************************************)
(* How a throw and its confirmation survive lost replies, retries and a    *)
(* second browser (docs/dice-request-recovery.md).                         *)
(*                                                                         *)
(* The server keeps one unacknowledged DiceRollRequest per leader; its     *)
(* primary key is the Idempotency-Key of the throw.  A held throw has a    *)
(* key of its own (PendingDiceRoll.confirmation_id).  Around both works    *)
(* the idempotent decorator: a row per key, written in the transaction of  *)
(* the action, and a cache entry written after the commit.                 *)
(*                                                                         *)
(* Clients are as general as they can be: any request with any key issued  *)
(* so far may arrive at any time, any number of times, from any tab, and   *)
(* nobody relies on having seen a reply.  Both bodies are empty, so the    *)
(* fingerprint of a request is its path.                                   *)
(***************************************************************************)
EXTENDS Naturals

CONSTANTS
  LegacyKeys,   \* keys of clients deployed before the protocol
  MaxKeys,      \* bound: server keys issued
  MaxThrows,    \* bound: dice the team ever has
  MaxPurges     \* bound: clean-ups of the retry records

ServerKeys == 1..MaxKeys
Throws     == 1..MaxThrows

ASSUME RequestAssumption ==
  /\ MaxKeys \in Nat
  /\ MaxThrows \in Nat
  /\ MaxPurges \in Nat
  /\ LegacyKeys \cap ServerKeys = {}

Keys == ServerKeys \cup LegacyKeys

\* What the retry records are about: a throw under a key, or the confirmation
\* of a held throw, whose key is named by the throw.
Operations == ({"roll"} \X Keys) \cup ({"confirm"} \X Throws)

\* No row, no answer.
Nothing == 0

VARIABLES
  issued,    \* keys handed out so far; uuid4 keys are new, so they are numbered
  request,   \* the DiceRollRequest row of the leader: its key, or Nothing
  receipt,   \* its response_data: the throw, or Nothing
  throws,    \* DiceRoll rows
  held,      \* the throw whose PendingDiceRoll waits, or Nothing
  landings,  \* confirmed landings
  records,   \* IdempotencyRequest rows: operation -> answer, or Nothing
  cache,     \* cached answers
  late,      \* committed answers on their way to the cache
  purges,    \* clean-ups so far
  \* History, for the properties only.
  thrown,    \* <<key, throw>>
  answered,  \* <<operation, answer>>
  seen,      \* keys whose result was acknowledged
  landed     \* <<throw, landing>>

protocol == <<issued, request, receipt>>
board    == <<throws, held, landings>>
retries  == <<records, cache, late, purges>>
history  == <<thrown, answered, seen, landed>>
vars     == <<protocol, board, retries, history>>

Answers == Nat

TypeOK ==
  /\ issued \in 0..MaxKeys
  /\ request \in 0..issued
  /\ receipt \in 0..throws
  /\ throws \in 0..MaxThrows
  /\ held \in 0..throws
  /\ landings \in Nat
  /\ records \in [Operations -> Answers]
  /\ cache \in [Operations -> Answers]
  /\ late \subseteq Operations \X Answers
  /\ purges \in 0..MaxPurges
  /\ thrown \subseteq Keys \X Throws
  /\ answered \subseteq Operations \X Answers
  /\ seen \subseteq ServerKeys
  /\ landed \subseteq Throws \X Nat

Init ==
  /\ issued = 0 /\ request = Nothing /\ receipt = Nothing
  /\ throws = 0 /\ held = Nothing /\ landings = 0
  /\ records = [op \in Operations |-> Nothing]
  /\ cache = [op \in Operations |-> Nothing]
  /\ late = {} /\ purges = 0
  /\ thrown = {} /\ answered = {} /\ seen = {} /\ landed = {}

-----------------------------------------------------------------------------
(* The protocol of the key *)

\* prepare_dice_roll_request: get_or_create, so a second browser is told the
\* key of the request that is open.
Prepare ==
  /\ request = Nothing
  /\ issued < MaxKeys
  /\ issued' = issued + 1
  /\ request' = issued'
  /\ UNCHANGED <<receipt, board, retries, history>>

\* Mutants: the receipt is kept for the next request; a late acknowledgement
\* removes whatever request is open.
AcknowledgeRow(k) ==
  /\ request = k
  /\ receipt # Nothing
  /\ request' = Nothing
  /\ seen' = seen \cup {k}
  /\ UNCHANGED <<issued, receipt, board, retries, thrown, answered, landed>>

AcknowledgeAny(k) ==
  /\ k <= issued
  /\ receipt # Nothing
  /\ request' = Nothing
  /\ receipt' = Nothing
  /\ seen' = seen \cup {k}
  /\ UNCHANGED <<issued, board, retries, thrown, answered, landed>>

\* acknowledge_dice_roll_request: refused before the throw, ignored for any
\* request but the open one.
Acknowledge(k) ==
  /\ request = k
  /\ receipt # Nothing
  /\ request' = Nothing
  /\ receipt' = Nothing
  /\ seen' = seen \cup {k}
  /\ UNCHANGED <<issued, board, retries, thrown, answered, landed>>

-----------------------------------------------------------------------------
(* The retry records (idempotent) *)

\* The reply leaves once the record is committed; the cache follows.
Reply(op, answer) ==
  /\ records' = [records EXCEPT ![op] = answer]
  /\ late' = late \cup {<<op, answer>>}
  /\ answered' = answered \cup {<<op, answer>>}

\* A retry that finds the row: the view is not called.
Replay(op) ==
  /\ records[op] # Nothing
  /\ Reply(op, records[op])
  /\ UNCHANGED <<protocol, board, cache, purges, thrown, seen, landed>>

\* A retry that finds the cache entry: the database is not asked.
ReplayCached(op) ==
  /\ cache[op] # Nothing
  /\ answered' = answered \cup {<<op, cache[op]>>}
  /\ UNCHANGED <<protocol, board, retries, thrown, seen, landed>>

\* _cache_set after the commit.  It may come late, and it may fail.
CacheSet(entry) ==
  /\ entry \in late
  /\ late' = late \ {entry}
  /\ cache' \in {cache, [cache EXCEPT ![entry[1]] = entry[2]]}
  /\ UNCHANGED <<protocol, board, records, purges, history>>

\* IDEMPOTENCY_TTL_SECONDS, or an eviction.
CacheExpire(op) ==
  /\ cache[op] # Nothing
  /\ cache' = [cache EXCEPT ![op] = Nothing]
  /\ UNCHANGED <<protocol, board, records, late, purges, history>>

\* An operator cleans up the retry records (the code never does).
PurgeRecords ==
  /\ purges < MaxPurges
  /\ purges' = purges + 1
  /\ records' = [op \in Operations |-> Nothing]
  /\ UNCHANGED <<protocol, board, cache, late, history>>

-----------------------------------------------------------------------------
(* The operations behind the records *)

\* roll_dice for a key whose record is gone while the request is still open:
\* the receipt is the answer.
ReturnReceipt(k) ==
  /\ records[<<"roll", k>>] = Nothing
  /\ request = k
  /\ receipt # Nothing
  /\ Reply(<<"roll", k>>, receipt)
  /\ UNCHANGED <<protocol, board, cache, purges, thrown, seen, landed>>

\* Mutant: without an open request every key may throw.
MayThrowClosed(k) == request # Nothing => request = k /\ receipt = Nothing

\* The open request must be the one that throws; without one only a legacy
\* key may (DiceRequestUnconfirmed, DiceRequestExpired).
MayThrow(k) ==
  IF request # Nothing THEN request = k /\ receipt = Nothing ELSE k \in LegacyKeys

\* Mutant: the receipt is not saved.
ThrowUnsaved(k, waits) ==
  /\ records[<<"roll", k>>] = Nothing
  /\ MayThrow(k)
  /\ held = Nothing
  /\ throws < MaxThrows
  /\ throws' = throws + 1
  /\ held' = IF waits THEN throws' ELSE Nothing
  /\ thrown' = thrown \cup {<<k, throws'>>}
  /\ Reply(<<"roll", k>>, throws')
  /\ UNCHANGED <<protocol, landings, cache, purges, seen, landed>>

\* roll_dice: no move is pending and a die is left.  The throw waits for a
\* confirmation when a post-roll card is in hand, and lands otherwise.
Throw(k, waits) ==
  /\ records[<<"roll", k>>] = Nothing
  /\ MayThrow(k)
  /\ held = Nothing
  /\ throws < MaxThrows
  /\ throws' = throws + 1
  /\ held' = IF waits THEN throws' ELSE Nothing
  /\ receipt' = IF request = Nothing THEN receipt ELSE throws'
  /\ thrown' = thrown \cup {<<k, throws'>>}
  /\ Reply(<<"roll", k>>, throws')
  /\ UNCHANGED <<issued, request, landings, cache, purges, seen, landed>>

\* Mutant: the confirmed move goes on waiting.
ConfirmOnly(t) ==
  /\ records[<<"confirm", t>>] = Nothing
  /\ held = t
  /\ landings' = landings + 1
  /\ landed' = landed \cup {<<t, landings'>>}
  /\ Reply(<<"confirm", t>>, landings')
  /\ UNCHANGED <<protocol, throws, held, cache, purges, thrown, seen>>

\* confirm_dice_roll with the key of throw t: only the move that waits now.
Confirm(t) ==
  /\ records[<<"confirm", t>>] = Nothing
  /\ held = t
  /\ held' = Nothing
  /\ landings' = landings + 1
  /\ landed' = landed \cup {<<t, landings'>>}
  /\ Reply(<<"confirm", t>>, landings')
  /\ UNCHANGED <<protocol, throws, cache, purges, thrown, seen>>

\* The pending move ends another way: a card uses it, or board_position of
\* the operators deletes it.
EndOtherwise ==
  /\ held # Nothing
  /\ held' = Nothing
  /\ UNCHANGED <<protocol, throws, landings, retries, history>>

-----------------------------------------------------------------------------
Next ==
  \/ Prepare
  \/ \E k \in ServerKeys : Acknowledge(k) \/ ReturnReceipt(k)
  \/ \E k \in Keys, waits \in BOOLEAN : Throw(k, waits)
  \/ \E t \in Throws : Confirm(t)
  \/ EndOtherwise
  \/ \E op \in Operations : Replay(op) \/ ReplayCached(op) \/ CacheExpire(op)
  \/ \E entry \in late : CacheSet(entry)
  \/ PurgeRecords

Spec == Init /\ [][Next]_vars

\* A player who retries the open request, reads its result and confirms a
\* pending move.
FairSpec ==
  /\ Spec
  /\ WF_vars(\E k \in ServerKeys, waits \in BOOLEAN : Throw(k, waits))
  /\ WF_vars(\E k \in ServerKeys : Acknowledge(k))
  /\ WF_vars(\E t \in Throws : Confirm(t))

-----------------------------------------------------------------------------
(* Properties *)

\* A server key throws once at most, whatever is retried and cleaned up
\* ("a server-issued key is not thrown again, even after the retry records
\* are cleaned up"); a legacy key once per clean-up.
ThrowsOncePerKey ==
  \A a, b \in thrown :
    a[1] = b[1] /\ (a[1] \in ServerKeys \/ purges = 0) => a[2] = b[2]

\* Every tab is told the same result of a server key, from the record, from
\* the receipt or from the cache, and it is the throw that was made.
OneResultPerKey ==
  \A k \in ServerKeys, entry \in answered :
    entry[1] = <<"roll", k>> => <<k, entry[2]>> \in thrown

\* A die spent under a server key cannot be missed: until the result is
\* acknowledged, the open request keeps it, and a late acknowledgement of an
\* earlier request does not remove it.
ResultKeptUntilSeen ==
  \A a \in thrown :
    a[1] \in ServerKeys => a[1] \in seen \/ (request = a[1] /\ receipt = a[2])

\* A confirmation key lands one throw at most: retried, or late while another
\* throw is held, it does not land that one too.
LandsOncePerThrow ==
  \A a, b \in landed : a[1] = b[1] => a[2] = b[2]

\* An open request never locks the team out: with a die left it is thrown and
\* acknowledged in the end.
RequestIsServed ==
  request # Nothing ~> (request = Nothing \/ throws = MaxThrows)
=============================================================================
