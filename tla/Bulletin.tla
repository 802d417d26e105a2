------------------------------ MODULE Bulletin ------------------------------
(***************************************************************************)
(* What the WebSocket server promises its readers, without sockets,        *)
(* callbacks or a loop: documents are posted one after the other, and a    *)
(* reader that is present receives, whenever it can, the newest one: never *)
(* an older one, and never one from before it came.                        *)
(***************************************************************************)
EXTENDS Naturals

CONSTANTS
  Readers,
  Away       \* not a number: the reader is not there

VARIABLES
  posted,    \* the number of the newest document
  seen       \* per reader: the newest document when it came, or the last one
             \* it received, or Away

bulletinVars == <<posted, seen>>

BulletinInit ==
  /\ posted = 0
  /\ seen = [r \in Readers |-> Away]

Post == posted' = posted + 1 /\ UNCHANGED seen

Come(r) ==
  /\ seen[r] = Away
  /\ seen' = [seen EXCEPT ![r] = posted]
  /\ UNCHANGED posted

Receive(r) ==
  /\ seen[r] # Away
  /\ seen[r] < posted
  /\ seen' = [seen EXCEPT ![r] = posted]
  /\ UNCHANGED posted

Go(r) ==
  /\ seen[r] # Away
  /\ seen' = [seen EXCEPT ![r] = Away]
  /\ UNCHANGED posted

BulletinNext == Post \/ \E r \in Readers : Come(r) \/ Receive(r) \/ Go(r)

BulletinSpec == BulletinInit /\ [][BulletinNext]_bulletinVars
=============================================================================
