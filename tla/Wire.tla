-------------------------------- MODULE Wire --------------------------------
(***************************************************************************)
(* What travels between a collector pod and the central receiver: the      *)
(* text of one frame, its HMAC trailer and the datagram that carries it.   *)
(*                                                                         *)
(* A frame's text is the H line, one chunk of N lines and the R line.  It  *)
(* is abstracted to the four things the properties tell apart: which       *)
(* cluster wrote it, in which cycle (LIVE_EPOCH), the node count of the H  *)
(* line and which of the N lines the chunk holds.  An HMAC is the pair of  *)
(* the key and the texts it was computed over, so two HMACs are equal      *)
(* exactly when both key and input are.                                    *)
(***************************************************************************)
EXTENDS Integers, Sequences, FiniteSets

CONSTANTS
  Cluster,        \* the clusters that report; a cluster is also its source IP
  NodesPerFrame,  \* NODES_PER_FRAME of the collector script (80 in the code)
  MaxNodes,       \* bound: nodes in one cluster
  MaxEpoch,       \* bound: cycles one cluster runs; also its latest LIVE_EPOCH
  MaxSeq,         \* the counter value after which the script wraps to 0
  SaltOf,         \* the HASH_SALT in the secret of each cluster
  HmacSalt        \* the salt the receiver decrypted at start

ASSUME WireAssumption ==
  /\ NodesPerFrame \in Nat \ {0}
  /\ MaxNodes \in Nat \ {0}
  /\ MaxEpoch \in Nat
  /\ MaxSeq \in Nat
  /\ DOMAIN SaltOf = Cluster

MsgId == 0 .. MaxSeq
NodeLine == 1 .. MaxNodes

\* Mutant of Chunk: the slice takes one line too many.
ChunkTooLong(count, s) == {k \in 1 .. count : s <= k /\ k <= s + NodesPerFrame}

\* The lines  sed -n "s,$((s + NODES_PER_FRAME - 1))p"  prints of a file of
\* count lines.
Chunk(count, s) == {k \in 1 .. count : s <= k /\ k <= s + NodesPerFrame - 1}

\* Mutant of TotalFrames: the division is not rounded up.
TotalFramesRoundedDown(count) ==
  LET f == count \div NodesPerFrame
  IN  IF f = 0 THEN 1 ELSE f

\* TOTAL_FRAMES, rounded up.
TotalFrames(count) ==
  LET f == (count + NodesPerFrame - 1) \div NodesPerFrame
  IN  IF f = 0 THEN 1 ELSE f

Text == [cluster : Cluster, epoch : Nat, count : NodeLine,
         lines : SUBSET NodeLine]

Salt == {SaltOf[c] : c \in Cluster} \cup {HmacSalt}

MAC(salt, texts) == [salt |-> salt, over |-> texts]

\* One well-formed datagram: the cleartext header "msg,frame,total|" and the
\* gzip member behind it, which holds a text and its T line.
Datagram ==
  [src : Cluster, msg : MsgId, frame : Nat \ {0}, total : Nat \ {0},
   text : Text, mac : [salt : Salt, over : Seq(Text)]]

\* The datagram for the frame that starts at line s of a snapshot.
FrameOf(c, msg, snap, frame, s) ==
  LET text == [cluster |-> c, epoch |-> snap.epoch, count |-> snap.count,
               lines |-> Chunk(snap.count, s)]
  IN  [src |-> c, msg |-> msg, frame |-> frame,
       total |-> TotalFrames(snap.count), text |-> text,
       mac |-> MAC(SaltOf[c], <<text>>)]
=============================================================================
