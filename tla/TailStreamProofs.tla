--------------------------- MODULE TailStreamProofs ---------------------------
(******************************************************************************)
(* Proofs about TailStream for streams, chunks, reads and limits of any size: *)
(* types, wake-ups, what a Seek skips, the order in which bytes are read, and *)
(* that Tail finds the loop its events go to.                                 *)
(******************************************************************************)
EXTENDS TailStream, SequenceTheorems, TLAPS

BufSeq == Seq(Bytes \cup {Junk})

\* The bytes of b are in their order.
Rising(b) ==
  \A i, j \in 1..Len(b) : i < j /\ b[i] # Junk /\ b[j] # Junk => b[i] < b[j]

\* A byte of b is at most as far from the end of b as it is from byte number base, is
\* beyond the floor f, is not beyond the byte h, and comes after all of S.
Good(b, base, f, h, S) ==
  \A i \in 1..Len(b) : b[i] # Junk =>
    b[i] + (Len(b) - i) >= base /\ b[i] > f /\ b[i] <= h /\ \A c \in S : c < b[i]

\* The last byte there is room for in the buffer, and the last one that is copied.
Base == IF dr = "copy" THEN src ELSE src - Len(chunk)
Hi == IF dr \in {"grow", "copy"} THEN src - Len(chunk) ELSE src

\* chunk holds bytes while Write is to copy them, and the last bytes Drain has read.
ChunkFits ==
  /\ dr \in {"grow", "copy"} => Len(chunk) > 0
  /\ dr \in {"none", "read", "check", "broadcast"} => Len(chunk) = 0
  /\ Len(chunk) <= src
  /\ \A i \in 1..Len(chunk) : chunk[i] = src - Len(chunk) + i

Held ==
  /\ Rising(buf)
  /\ Good(buf, Base, floor, Hi, seen)
  /\ \A c \in seen : c <= Hi
  /\ floor <= src - Len(chunk)
  /\ \A i \in 1..Len(p) : p[i] # Junk => p[i] > floor
  /\ dr = "none" => buf = <<>>

\* Unless the buffer is spoilt, all of it is copied but the room Write has just made.
Clean ==
  ~spoilt => \A i \in 1..Len(buf) : buf[i] = Junk => dr = "copy" /\ i > Len(buf) - Len(chunk)

\* The inductive invariant: what concerns the wrapper ...
KInv == SeekerTypeOK /\ ChunkFits /\ Held /\ Clean /\ NoLostWakeup

SessTypeOK ==
  /\ dockerStreams \in BOOLEAN
  /\ tail \in {"env", "large", "split", "files", "warn", "error", "spawn", "returned"}
  /\ unchecked \subseteq LogName
  /\ logfiles \subseteq LogName
  /\ loop \in {"delay", "range", "gone"}
  /\ waiter \in {"none", "blocked", "done"}
  /\ stop \in BOOLEAN
  /\ ts \in {"none", "limit", "skip", "get", "warn", "read", "publish", "stop", "done"}
  /\ limit \in Limits \cup {0}
  /\ tl \in {"none", "seek", "follow", "dead"}

\* ... and that it is only used once it has been made.
Stages ==
  /\ tail # "returned" => ts = "none"
  /\ ts \in {"none", "limit", "skip", "get", "warn"} => dr = "none"

IInv == KInv /\ SessTypeOK /\ Stages

-----------------------------------------------------------------------------
\* Sequences.

LEMMA Elements ==
  ASSUME NEW b \in BufSeq
  PROVE  /\ Len(b) \in Nat
         /\ DOMAIN b = 1..Len(b)
         /\ \A i \in 1..Len(b) : b[i] \in Bytes \cup {Junk}
         /\ \A i \in 1..Len(b) : b[i] # Junk => b[i] \in Nat
         /\ b # <<>> => Len(b) > 0
<1>1. Len(b) \in Nat /\ DOMAIN b = 1..Len(b) /\ b \in [1..Len(b) -> Bytes \cup {Junk}]
  BY LenProperties DEF BufSeq
<1>2. \A x \in Bytes : x \in Nat
  BY SeekerBounds DEF Bytes
<1>3. b # <<>> => Len(b) \in Nat \ {0}
  BY EmptySeq DEF BufSeq
<1> QED
  BY <1>1, <1>2, <1>3

LEMMA Suffix ==
  ASSUME NEW b \in BufSeq, NEW k \in Nat, k <= Len(b)
  PROVE  LET t == SubSeq(b, k + 1, Len(b))
         IN  /\ t \in BufSeq
             /\ Len(t) = Len(b) - k
             /\ \A i \in 1..Len(t) : t[i] = b[k + i]
<1> DEFINE t == SubSeq(b, k + 1, Len(b))
<1>1. Len(b) \in Nat /\ \A i \in k + 1 .. Len(b) : b[i] \in Bytes \cup {Junk}
  BY Elements
<1>2. /\ t \in BufSeq
      /\ Len(t) = IF k + 1 <= Len(b) THEN Len(b) - (k + 1) + 1 ELSE 0
      /\ \A i \in 1 .. Len(b) - (k + 1) + 1 : t[i] = b[k + 1 + i - 1]
  BY <1>1, SubSeqProperties DEF BufSeq
<1>3. Len(t) = Len(b) - k
  BY <1>1, <1>2
<1>4. \A i \in 1..Len(t) : t[i] = b[k + i]
  <2> SUFFICES ASSUME NEW i \in 1..Len(t) PROVE t[i] = b[k + i]
    OBVIOUS
  <2>1. i \in 1 .. Len(b) - (k + 1) + 1 /\ k + 1 + i - 1 = k + i
    BY <1>1, <1>3
  <2> QED
    BY <2>1, <1>2
<1> QED
  BY <1>2, <1>3, <1>4

LEMMA Prefix ==
  ASSUME NEW b \in BufSeq, NEW k \in Nat, k <= Len(b)
  PROVE  LET t == SubSeq(b, 1, k)
         IN  /\ t \in BufSeq
             /\ Len(t) = k
             /\ \A i \in 1..k : t[i] = b[i]
<1> DEFINE t == SubSeq(b, 1, k)
<1>1. Len(b) \in Nat /\ \A i \in 1 .. k : b[i] \in Bytes \cup {Junk}
  BY Elements
<1>2. /\ t \in BufSeq
      /\ Len(t) = IF 1 <= k THEN k - 1 + 1 ELSE 0
      /\ \A i \in 1 .. k - 1 + 1 : t[i] = b[1 + i - 1]
  BY <1>1, SubSeqProperties DEF BufSeq
<1>3. Len(t) = k
  BY <1>2
<1>4. \A i \in 1..k : t[i] = b[i]
  <2> SUFFICES ASSUME NEW i \in 1..k PROVE t[i] = b[i]
    OBVIOUS
  <2>1. i \in 1 .. k - 1 + 1 /\ 1 + i - 1 = i
    OBVIOUS
  <2> QED
    BY <2>1, <1>2
<1> QED
  BY <1>2, <1>3, <1>4

\* What is left of a buffer that is read from, or skipped in, is as good as it was.
LEMMA SuffixIsGood ==
  ASSUME NEW b \in BufSeq, NEW k \in Nat, k <= Len(b),
         NEW base \in Int, NEW f \in Int, NEW h \in Int, NEW S \in SUBSET Nat,
         Rising(b), Good(b, base, f, h, S)
  PROVE  LET t == SubSeq(b, k + 1, Len(b))
         IN  Rising(t) /\ Good(t, base, f, h, S)
<1> DEFINE t == SubSeq(b, k + 1, Len(b))
<1>1. /\ t \in BufSeq /\ Len(t) = Len(b) - k /\ \A i \in 1..Len(t) : t[i] = b[k + i]
  BY Suffix
<1>2. Len(b) \in Nat /\ \A i \in 1..Len(b) : b[i] # Junk => b[i] \in Nat
  BY Elements
<1> HIDE DEF t
<1>3. \A i \in 1..Len(t) : k + i \in 1..Len(b) /\ Len(t) - i = Len(b) - (k + i)
  BY <1>1, <1>2
<1>4. Rising(t)
  BY <1>1, <1>2, <1>3, SMTT(30) DEF Rising
<1>5. Good(t, base, f, h, S)
  BY <1>1, <1>2, <1>3 DEF Good
<1> QED
  BY <1>4, <1>5 DEF t

LEMMA EmptyIsGood ==
  ASSUME NEW base, NEW f, NEW h, NEW S
  PROVE  <<>> \in BufSeq /\ Rising(<<>>) /\ Good(<<>>, base, f, h, S)
<1>1. <<>> \in BufSeq /\ Len(<<>>) = 0
  BY EmptySeq DEF BufSeq
<1> QED
  BY <1>1 DEF Rising, Good

\* Bytes of which nothing is known break no order.
LEMMA JunksAreGood ==
  ASSUME NEW k \in Nat, NEW base, NEW f, NEW h, NEW S
  PROVE  /\ Junks(k) \in BufSeq /\ Len(Junks(k)) = k
         /\ \A i \in 1..k : Junks(k)[i] = Junk
         /\ Rising(Junks(k)) /\ Good(Junks(k), base, f, h, S)
<1>1. Junks(k) \in BufSeq /\ Len(Junks(k)) = k /\ \A i \in 1..k : Junks(k)[i] = Junk
  BY DEF Junks, BufSeq
<1>2. Rising(Junks(k)) /\ Good(Junks(k), base, f, h, S)
  BY <1>1 DEF Rising, Good
<1> QED
  BY <1>1, <1>2

-----------------------------------------------------------------------------
\* Steps of the wrapper.

\* The numbers of a state are numbers.
LEMMA Numbers ==
  ASSUME SeekerTypeOK
  PROVE  /\ MaxBytes \in Nat /\ ChunkSize \in Nat /\ ReadSize \in Nat \ {0}
         /\ Bytes \subseteq Nat
         /\ written \in Nat /\ src \in Nat /\ floor \in Nat /\ src <= written
         /\ written <= MaxBytes /\ floor <= MaxBytes
         /\ buf \in BufSeq /\ Len(buf) \in Nat
         /\ p \in BufSeq /\ Len(p) \in Nat
         /\ chunk \in BufSeq /\ Len(chunk) \in Nat /\ DOMAIN chunk = 1..Len(chunk)
         /\ seen \in SUBSET Nat
         /\ Base \in Int /\ Hi \in Int
<1>1. MaxBytes \in Nat /\ ChunkSize \in Nat /\ ReadSize \in Nat \ {0} /\ Bytes \subseteq Nat
  BY SeekerBounds DEF Bytes
<1>2. written \in Nat /\ src \in Nat /\ floor \in Nat /\ src <= written
      /\ written <= MaxBytes /\ floor <= MaxBytes
  BY <1>1 DEF SeekerTypeOK
<1>3. buf \in BufSeq /\ p \in BufSeq /\ seen \in SUBSET Nat
  BY <1>1 DEF SeekerTypeOK, BufSeq
<1>4. chunk \in Seq(Bytes)
  BY DEF SeekerTypeOK
<1>5. Len(chunk) \in Nat /\ DOMAIN chunk = 1..Len(chunk) /\ \A i \in 1..Len(chunk) : chunk[i] \in Bytes
  BY <1>4, LenProperties
<1>6. chunk \in BufSeq
  BY <1>4 DEF BufSeq
<1>7. Len(buf) \in Nat /\ Len(p) \in Nat
  BY <1>3, Elements
<1> QED
  BY <1>1, <1>2, <1>3, <1>5, <1>6, <1>7 DEF Base, Hi

\* Nothing about the wrapper changes.
LEMMA KUnchanged ==
  ASSUME KInv, UNCHANGED seekerVars
  PROVE  KInv'
BY DEF KInv, SeekerTypeOK, ChunkFits, Held, Clean, NoLostWakeup, Rising, Good, Base, Hi,
       seekerVars, drainVars, readVars

LEMMA KStreamWrites ==
  ASSUME KInv, StreamWrites
  PROVE  KInv'
<1> USE DEF KInv, StreamWrites, drainVars, readVars
<1>1. SeekerTypeOK'
  BY Numbers DEF SeekerTypeOK, Bytes
<1>2. ChunkFits' /\ Held' /\ Clean' /\ NoLostWakeup'
  BY DEF ChunkFits, Held, Clean, NoLostWakeup, Rising, Good, Base, Hi
<1> QED
  BY <1>1, <1>2

LEMMA KStreamEnds ==
  ASSUME KInv, StreamEnds \/ Close
  PROVE  KInv'
<1> USE DEF KInv, StreamEnds, Close, drainVars, readVars
<1>1. SeekerTypeOK'
  BY DEF SeekerTypeOK, Bytes
<1>2. ChunkFits' /\ Held' /\ Clean' /\ NoLostWakeup'
  BY DEF ChunkFits, Held, Clean, NoLostWakeup, Rising, Good, Base, Hi
<1> QED
  BY <1>1, <1>2

LEMMA KDrainRead ==
  ASSUME KInv, DrainRead
  PROVE  KInv'
<1> USE DEF KInv
<1>1. PICK n \in 1..Least(ChunkSize, written - src) :
        chunk' = [i \in 1..n |-> src + i] /\ src' = src + n
  BY DEF DrainRead
<1>2. /\ dr = "read" /\ dr' = "grow" /\ err' \in BOOLEAN
      /\ UNCHANGED <<written, stream, buf, spoilt, rd, p, seen, crashed, floor>>
  BY DEF DrainRead, readVars
<1>3. n \in Nat /\ n > 0 /\ src + n <= written
  BY <1>1, Numbers DEF Least
<1>4. \A i \in 1..n : src + i \in Bytes
  BY <1>3, Numbers, SMTT(30) DEF Bytes
<1>5. chunk' \in Seq(Bytes) /\ Len(chunk') = n /\ \A i \in 1..n : chunk'[i] = src + i
  BY <1>1, <1>3, <1>4
<1>6. SeekerTypeOK'
  <2>1. src' \in 0..written'
    BY <1>1, <1>2, <1>3, Numbers
  <2> QED
    BY <1>2, <1>5, <2>1 DEF SeekerTypeOK, Bytes
<1>7. ChunkFits'
  BY <1>1, <1>2, <1>3, <1>5, Numbers, SMTT(30) DEF ChunkFits
<1>8. Base' = Base /\ Hi' = Hi /\ src' - Len(chunk') = src - Len(chunk)
  BY <1>1, <1>2, <1>3, <1>5, Numbers DEF Base, Hi, ChunkFits
<1>9. Held'
  BY <1>2, <1>8 DEF Held, Rising, Good
<1>10. NoLostWakeup' /\ Clean'
  BY <1>2 DEF NoLostWakeup, Clean
<1> QED
  BY <1>6, <1>7, <1>9, <1>10

LEMMA KDrainEnds ==
  ASSUME KInv, DrainEnds
  PROVE  KInv'
<1> USE DEF KInv
<1>1. /\ dr = "read" /\ dr' = "done" /\ chunk' = <<>> /\ err' = TRUE
      /\ UNCHANGED <<written, stream, src, buf, spoilt, rd, p, seen, crashed, floor>>
  BY DEF DrainEnds, readVars
<1>2. Len(chunk) = 0 /\ Len(chunk') = 0 /\ chunk' \in Seq(Bytes)
  BY <1>1, EmptySeq DEF ChunkFits
<1>3. SeekerTypeOK'
  BY <1>1, <1>2 DEF SeekerTypeOK, Bytes
<1>4. ChunkFits'
  BY <1>1, <1>2, Numbers DEF ChunkFits
<1>5. Base' = Base /\ Hi' = Hi
  BY <1>1, <1>2 DEF Base, Hi
<1>6. Held'
  BY <1>1, <1>2, <1>5 DEF Held, Rising, Good
<1>7. NoLostWakeup' /\ Clean'
  BY <1>1 DEF NoLostWakeup, Clean
<1> QED
  BY <1>3, <1>4, <1>6, <1>7

LEMMA KWriteGrow ==
  ASSUME KInv, ~spoilt, WriteGrow
  PROVE  KInv'
<1> USE DEF KInv
<1> DEFINE room == Junks(Len(chunk))
<1>1. /\ dr = "grow" /\ dr' = "copy" /\ buf' = buf \o room
      /\ UNCHANGED <<written, stream, src, chunk, err, spoilt, rd, p, seen, crashed, floor>>
  BY DEF WriteGrow, readVars
<1>2. room \in BufSeq /\ Len(room) = Len(chunk) /\ \A i \in 1..Len(chunk) : room[i] = Junk
  BY Numbers, JunksAreGood
<1> HIDE DEF room
<1>3. /\ buf' \in BufSeq
      /\ Len(buf') = Len(buf) + Len(chunk)
      /\ \A i \in 1 .. Len(buf) + Len(chunk) :
           buf'[i] = IF i <= Len(buf) THEN buf[i] ELSE room[i - Len(buf)]
  <2>1. buf \in BufSeq /\ buf' = buf \o room
    BY <1>1, Numbers
  <2>2. /\ buf' \in BufSeq
        /\ Len(buf') = Len(buf) + Len(room)
        /\ \A i \in 1 .. Len(buf) + Len(room) :
             buf'[i] = IF i <= Len(buf) THEN buf[i] ELSE room[i - Len(buf)]
    BY <1>2, <2>1, ConcatProperties DEF BufSeq
  <2> QED
    BY <1>2, <2>2
<1>4. \A i \in 1..Len(buf') : buf'[i] # Junk => i \in 1..Len(buf) /\ buf'[i] = buf[i]
  BY <1>2, <1>3, Numbers, SMTT(30)
<1>5. SeekerTypeOK'
  BY <1>1, <1>3 DEF SeekerTypeOK, Bytes, BufSeq
<1>6. ChunkFits'
  BY <1>1 DEF ChunkFits
<1>7. Base' = Base + Len(chunk) /\ Hi' = Hi
  BY <1>1, Numbers DEF Base, Hi
<1>8. Rising(buf')
  BY <1>4, Numbers DEF Held, Rising
<1>9. Good(buf', Base', floor', Hi', seen')
  <2> SUFFICES ASSUME NEW i \in 1..Len(buf'), buf'[i] # Junk
               PROVE  /\ buf'[i] + (Len(buf') - i) >= Base'
                      /\ buf'[i] > floor /\ buf'[i] <= Hi /\ \A c \in seen : c < buf'[i]
    BY <1>1, <1>7 DEF Good
  <2>1. i \in 1..Len(buf) /\ buf'[i] = buf[i] /\ buf[i] \in Nat
    BY <1>4, Numbers, Elements
  <2>2. /\ buf[i] + (Len(buf) - i) >= Base
        /\ buf[i] > floor /\ buf[i] <= Hi /\ \A c \in seen : c < buf[i]
    BY <2>1 DEF Held, Good
  <2>3. buf[i] + (Len(buf) + Len(chunk) - i) >= Base + Len(chunk)
    <3>1. Len(buf) \in Nat /\ Len(chunk) \in Nat /\ Base \in Int
      BY Numbers
    <3> HIDE DEF KInv
    <3> QED
      BY <2>1, <2>2, <3>1
  <2> QED
    BY <1>3, <1>7, <2>1, <2>2, <2>3
<1>10. Held'
  BY <1>1, <1>7, <1>8, <1>9 DEF Held
<1>11. NoLostWakeup'
  BY <1>1 DEF NoLostWakeup
<1>12. Clean'
  <2> SUFFICES ASSUME NEW i \in 1..Len(buf'), buf'[i] = Junk
               PROVE  i > Len(buf') - Len(chunk)
    BY <1>1 DEF Clean
  <2>1. i \in 1..Len(buf) => buf'[i] = buf[i] /\ buf[i] # Junk
    BY <1>1, <1>3, Numbers DEF Clean
  <2> QED
    BY <1>3, <2>1, Numbers
<1> QED
  BY <1>5, <1>6, <1>10, <1>11, <1>12

LEMMA KWriteGrowSpoilt ==
  ASSUME KInv, spoilt, WriteGrow
  PROVE  KInv'
<1> USE DEF KInv
<1>1. PICK k \in 0..Least(src, Len(buf) + Len(chunk)) : buf' = Junks(k)
  BY DEF WriteGrow
<1>2. /\ dr = "grow" /\ dr' = "copy"
      /\ UNCHANGED <<written, stream, src, chunk, err, spoilt, rd, p, seen, crashed, floor>>
  BY DEF WriteGrow, readVars
<1>3. buf' \in BufSeq /\ Rising(buf') /\ Good(buf', Base', floor', Hi', seen')
  BY <1>1, JunksAreGood
<1>4. SeekerTypeOK'
  BY <1>2, <1>3 DEF SeekerTypeOK, Bytes, BufSeq
<1>5. ChunkFits' /\ Clean' /\ NoLostWakeup'
  BY <1>2 DEF ChunkFits, Clean, NoLostWakeup
<1>6. Hi' = Hi
  BY <1>2 DEF Hi
<1>7. Held'
  BY <1>2, <1>3, <1>6 DEF Held
<1> QED
  BY <1>4, <1>5, <1>7

LEMMA KWriteCopy ==
  ASSUME KInv, ~spoilt, WriteCopy
  PROVE  KInv'
<1> USE DEF KInv
<1> DEFINE left == Least(Len(buf), Len(chunk))
           old == SubSeq(buf, 1, Len(buf) - left)
           new == LastOf(chunk, left)
<1>1. /\ dr = "copy" /\ buf' = old \o new
      /\ dr' = (IF err THEN "done" ELSE "check")
      /\ chunk' = (IF err THEN chunk ELSE <<>>)
      /\ UNCHANGED <<written, stream, src, err, spoilt, rd, p, seen, crashed, floor>>
  BY DEF WriteCopy, readVars
<1>2. left \in Nat /\ left <= Len(buf) /\ left <= Len(chunk)
      /\ Len(buf) - left \in Nat /\ Len(chunk) - left \in Nat
  BY Numbers DEF Least
<1>3. old \in BufSeq /\ Len(old) = Len(buf) - left
      /\ \A i \in 1..Len(buf) - left : old[i] = buf[i]
  BY <1>2, Numbers, Prefix, SMTT(30)
<1>4. new = SubSeq(chunk, (Len(chunk) - left) + 1, Len(chunk))
  BY DEF LastOf
<1> HIDE DEF left, old, new
<1>5. new \in BufSeq /\ Len(new) = left
      /\ \A i \in 1..left : new[i] = chunk[(Len(chunk) - left) + i]
  <2> DEFINE k == Len(chunk) - left
  <2>1. k \in Nat /\ k <= Len(chunk) /\ chunk \in BufSeq /\ left = Len(chunk) - k
    BY <1>2, Numbers
  <2>2. new = SubSeq(chunk, k + 1, Len(chunk))
    BY <1>4
  <2> HIDE DEF k
  <2>3. /\ new \in BufSeq
        /\ Len(new) = Len(chunk) - k
        /\ \A i \in 1..Len(new) : new[i] = chunk[k + i]
    BY <2>1, <2>2, Suffix
  <2> QED
    BY <2>1, <2>3 DEF k
<1>6. /\ buf' \in BufSeq
      /\ Len(buf') = Len(buf)
      /\ \A i \in 1..Len(buf) :
           buf'[i] = IF i <= Len(buf) - left THEN buf[i]
                     ELSE chunk[(Len(chunk) - left) + (i - (Len(buf) - left))]
  <2>1. /\ buf' \in BufSeq
        /\ Len(buf') = Len(old) + Len(new)
        /\ \A i \in 1 .. Len(old) + Len(new) :
             buf'[i] = IF i <= Len(old) THEN old[i] ELSE new[i - Len(old)]
    BY <1>1, <1>3, <1>5, ConcatProperties, ZenonT(60) DEF BufSeq
  <2>2. Len(old) + Len(new) = Len(buf)
    BY <1>2, <1>3, <1>5, Numbers
  <2>3. ASSUME NEW i \in 1..Len(buf)
        PROVE  buf'[i] = IF i <= Len(buf) - left THEN buf[i]
                         ELSE chunk[(Len(chunk) - left) + (i - (Len(buf) - left))]
    <3>1. CASE i <= Len(buf) - left
      <4>1. i \in 1..Len(buf) - left
        BY <1>2, <3>1, Numbers
      <4> QED
        BY <1>3, <2>1, <2>2, <3>1, <4>1
    <3>2. CASE ~(i <= Len(buf) - left)
      <4>1. i - (Len(buf) - left) \in 1..left
        BY <1>2, <3>2, Numbers
      <4> QED
        BY <1>3, <1>5, <2>1, <2>2, <3>2, <4>1
    <3> QED
      BY <3>1, <3>2
  <2> QED
    BY <2>1, <2>2, <2>3
\* A byte that has been copied is at its place.
<1>7. \A i \in 1..Len(buf) : i > Len(buf) - left =>
        buf'[i] = src - (Len(buf) - i) /\ buf'[i] > src - Len(chunk) /\ buf'[i] <= src
  <2> SUFFICES ASSUME NEW i \in 1..Len(buf), i > Len(buf) - left
               PROVE  buf'[i] = src - (Len(buf) - i) /\ buf'[i] > src - Len(chunk) /\ buf'[i] <= src
    OBVIOUS
  <2> DEFINE k == (Len(chunk) - left) + (i - (Len(buf) - left))
  <2>1. k \in 1..Len(chunk) /\ k = Len(chunk) - (Len(buf) - i)
    BY <1>2, Numbers
  <2>2. buf'[i] = chunk[k]
    BY <1>2, <1>6, Numbers
  <2>3. chunk[k] = src - Len(chunk) + k
    BY <2>1 DEF ChunkFits
  <2> HIDE DEF k
  <2> QED
    BY <2>1, <2>2, <2>3, Numbers, SMTT(30)
<1>8. \A i \in 1..Len(buf) : i <= Len(buf) - left => buf'[i] = buf[i]
  BY <1>6
<1>9. chunk' \in Seq(Bytes) /\ Len(chunk') <= Len(chunk)
      /\ (chunk' = chunk \/ chunk' = <<>>) /\ Len(<<>>) = 0
  BY <1>1, Numbers, EmptySeq DEF SeekerTypeOK
<1>10. SeekerTypeOK'
  BY <1>1, <1>6, <1>9 DEF SeekerTypeOK, Bytes, BufSeq
<1>11. ChunkFits'
  BY <1>1, <1>9, Numbers DEF ChunkFits
<1>12. Base = src /\ Hi = src - Len(chunk) /\ Hi' = src /\ Base' <= src /\ Base' \in Int
  BY <1>1, <1>9, Numbers DEF Base, Hi
<1>13. \A i \in 1..Len(buf) : buf[i] # Junk =>
         /\ buf[i] \in Nat /\ buf[i] + (Len(buf) - i) >= src
         /\ buf[i] > floor /\ buf[i] <= src - Len(chunk) /\ \A c \in seen : c < buf[i]
  BY <1>12, Numbers, Elements DEF Held, Good
<1>14. Rising(buf')
  <2> SUFFICES ASSUME NEW i \in 1..Len(buf), NEW j \in 1..Len(buf),
                      i < j, buf'[i] # Junk, buf'[j] # Junk
               PROVE  buf'[i] < buf'[j]
    BY <1>6 DEF Rising
  <2>0. i \in Nat /\ j \in Nat /\ Len(buf) \in Nat /\ left \in Nat /\ src \in Nat
        /\ Len(chunk) \in Nat
    BY <1>2, Numbers
  <2>1. CASE j <= Len(buf) - left
    <3>1. buf'[i] = buf[i] /\ buf'[j] = buf[j]
      BY <1>8, <2>0, <2>1
    <3> QED
      BY <3>1 DEF Held, Rising
  <2>2. CASE i <= Len(buf) - left /\ j > Len(buf) - left
    <3>1. buf[i] = buf'[i] /\ buf[i] \in Nat /\ buf[i] <= src - Len(chunk)
      BY <1>8, <1>13, <2>2
    <3>2. buf'[j] = src - (Len(buf) - j) /\ buf'[j] > src - Len(chunk)
      BY <1>7, <2>2
    <3> QED
      BY <2>0, <3>1, <3>2
  <2>3. CASE i > Len(buf) - left
    <3>1. buf'[i] = src - (Len(buf) - i) /\ buf'[j] = src - (Len(buf) - j)
      BY <1>7, <2>0, <2>3
    <3> QED
      BY <2>0, <3>1
  <2> QED
    BY <2>0, <2>1, <2>2, <2>3
<1>15. Good(buf', Base', floor', Hi', seen')
  <2> SUFFICES ASSUME NEW i \in 1..Len(buf), buf'[i] # Junk
               PROVE  /\ buf'[i] + (Len(buf) - i) >= Base'
                      /\ buf'[i] > floor /\ buf'[i] <= src /\ \A c \in seen : c < buf'[i]
    BY <1>1, <1>6, <1>12 DEF Good
  <2>1. CASE i <= Len(buf) - left
    <3>1. buf'[i] = buf[i] /\ buf[i] \in Nat /\ buf[i] + (Len(buf) - i) >= src
          /\ buf[i] > floor /\ buf[i] <= src - Len(chunk) /\ \A c \in seen : c < buf[i]
      BY <1>8, <1>13, <2>1
    <3>2. Len(buf) \in Nat /\ src \in Nat /\ Len(chunk) \in Nat /\ i \in Nat
      BY Numbers
    <3> QED
      BY <1>12, <3>1, <3>2
  <2>2. CASE i > Len(buf) - left
    <3>1. floor <= src - Len(chunk) /\ \A c \in seen : c <= src - Len(chunk)
      BY <1>12 DEF Held
    <3> QED
      BY <1>7, <1>12, <2>2, <3>1, Numbers, SMTT(30)
  <2> QED
    BY <1>2, <2>1, <2>2, Numbers
<1>16. Held'
  <2>1. \A c \in seen : c <= src
    BY <1>12, Numbers DEF Held
  <2>2. floor <= src - Len(chunk')
    BY <1>9, Numbers DEF Held
  <2> QED
    BY <1>1, <1>12, <1>14, <1>15, <2>1, <2>2 DEF Held
<1>17. NoLostWakeup'
  BY <1>1, Numbers, EmptySeq DEF NoLostWakeup, ChunkFits
<1>18. Clean'
  <2> SUFFICES ASSUME NEW i \in 1..Len(buf), buf'[i] = Junk PROVE FALSE
    BY <1>6 DEF Clean
  <2>1. CASE i > Len(buf) - left
    <3>1. buf'[i] = src - (Len(buf) - i) /\ buf'[i] > src - Len(chunk)
      BY <1>7, <2>1
    <3>2. buf'[i] \in Nat
      BY <3>1, Numbers DEF ChunkFits
    <3> QED
      BY <3>2, JunkIsNoByte
  <2>2. CASE i <= Len(buf) - left
    <3>1. buf[i] = Junk
      BY <1>8, <2>2
    <3>2. i > Len(buf) - Len(chunk)
      BY <3>1 DEF Clean
    <3> QED
      BY <2>2, <3>2, Numbers DEF left, Least
  <2> QED
    BY <1>2, <2>1, <2>2, Numbers
<1> QED
  BY <1>10, <1>11, <1>16, <1>17, <1>18

LEMMA KWriteCopySpoilt ==
  ASSUME KInv, spoilt, WriteCopy
  PROVE  KInv'
<1> USE DEF KInv
<1>1. /\ dr = "copy" /\ dr' = (IF err THEN "done" ELSE "check")
      /\ chunk' = (IF err THEN chunk ELSE <<>>)
      /\ UNCHANGED <<written, stream, src, err, buf, spoilt, rd, p, seen, crashed, floor>>
  BY DEF WriteCopy, readVars
<1>2. chunk' \in Seq(Bytes) /\ Len(chunk') <= Len(chunk) /\ Len(chunk') \in Nat
      /\ (chunk' = chunk \/ chunk' = <<>>) /\ Len(<<>>) = 0
  BY <1>1, Numbers, EmptySeq DEF SeekerTypeOK
<1>3. SeekerTypeOK'
  BY <1>1, <1>2 DEF SeekerTypeOK, Bytes
<1>4. ChunkFits'
  BY <1>1, <1>2, Numbers DEF ChunkFits
<1>5. Clean' /\ NoLostWakeup'
  BY <1>1, Numbers, EmptySeq DEF Clean, NoLostWakeup, ChunkFits
<1>6. Base = src /\ Base' <= src /\ Base' \in Int /\ Hi = src - Len(chunk) /\ Hi' = src
  BY <1>1, <1>2, Numbers DEF Base, Hi
<1>7. Good(buf, Base', floor, src, seen)
  <2> SUFFICES ASSUME NEW i \in 1..Len(buf), buf[i] # Junk
               PROVE  /\ buf[i] + (Len(buf) - i) >= Base' /\ buf[i] > floor /\ buf[i] <= src
                      /\ \A c \in seen : c < buf[i]
    BY DEF Good
  <2>1. buf[i] \in Nat /\ i \in Nat
    BY Numbers, Elements
  <2>2. /\ buf[i] + (Len(buf) - i) >= src /\ buf[i] > floor /\ buf[i] <= src - Len(chunk)
        /\ \A c \in seen : c < buf[i]
    BY <1>6 DEF Held, Good
  <2> QED
    BY <1>6, <2>1, <2>2, Numbers, SMTT(30)
<1>8. (\A c \in seen : c <= src) /\ floor <= src - Len(chunk')
  BY <1>2, <1>6, Numbers DEF Held
<1>9. Held'
  BY <1>1, <1>6, <1>7, <1>8 DEF Held
<1> QED
  BY <1>3, <1>4, <1>5, <1>9

\* Steps that change no more than where Drain and Read are.
LEMMA KWritePanics ==
  ASSUME KInv, WritePanics
  PROVE  KInv'
BY DEF KInv, WritePanics, SeekerTypeOK, ChunkFits, Held, Clean, NoLostWakeup, Rising, Good,
   Base, Hi,
       drainVars, readVars

LEMMA KDrainCheck ==
  ASSUME KInv, DrainCheck
  PROVE  KInv'
<1> USE DEF KInv
<1>1. /\ dr = "check" /\ dr' = (IF buf # <<>> THEN "broadcast" ELSE "read")
      /\ UNCHANGED <<written, stream, src, chunk, err, buf, spoilt, rd, p, seen, crashed, floor>>
  BY DEF DrainCheck, readVars
<1>2. SeekerTypeOK'
  BY <1>1 DEF SeekerTypeOK, Bytes
<1>3. ChunkFits' /\ Base' = Base /\ Hi' = Hi
  BY <1>1 DEF ChunkFits, Base, Hi
<1>4. Held'
  BY <1>1, <1>3 DEF Held, Rising, Good
<1>5. NoLostWakeup' /\ Clean'
  BY <1>1 DEF NoLostWakeup, Clean
<1> QED
  BY <1>2, <1>3, <1>4, <1>5

LEMMA KBroadcast ==
  ASSUME KInv, Broadcast
  PROVE  KInv'
<1> USE DEF KInv
<1>1. /\ dr = "broadcast" /\ dr' = "read" /\ ~Locked
      /\ rd' = (IF rd = "wait" THEN "lock" ELSE rd)
      /\ UNCHANGED <<written, stream, src, chunk, err, buf, spoilt, p, seen, crashed, floor>>
  BY DEF Broadcast
<1>2. SeekerTypeOK'
  BY <1>1 DEF SeekerTypeOK, Bytes
<1>3. ChunkFits' /\ Base' = Base /\ Hi' = Hi
  BY <1>1 DEF ChunkFits, Base, Hi
<1>4. Held'
  BY <1>1, <1>3 DEF Held, Rising, Good
<1>5. NoLostWakeup' /\ Clean'
  BY <1>1 DEF NoLostWakeup, Clean, Locked
<1> QED
  BY <1>2, <1>3, <1>4, <1>5

LEMMA KReadMoves ==
  ASSUME KInv, ReadCalled \/ ReadLocks \/ ReadChecks \/ ReadWaits
  PROVE  KInv'
<1> USE DEF KInv
<1>1. /\ rd' \in {"lock", "check", "sleep", "wait", "take"}
      /\ rd' = "sleep" => Len(buf) < 1
      /\ rd' = "wait" => rd = "sleep"
      /\ UNCHANGED <<written, stream, src, dr, chunk, err, buf, spoilt, p, seen, crashed, floor>>
  BY DEF ReadCalled, ReadLocks, ReadChecks, ReadWaits, drainVars
<1>2. SeekerTypeOK'
  BY <1>1 DEF SeekerTypeOK, Bytes
<1>3. ChunkFits' /\ Held' /\ Clean'
  BY <1>1 DEF ChunkFits, Held, Clean, Rising, Good, Base, Hi
<1>4. Len(buf) < 1 => buf = <<>>
  BY Numbers, Elements
<1>5. NoLostWakeup'
  BY <1>1, <1>4 DEF NoLostWakeup
<1> QED
  BY <1>2, <1>3, <1>5

\* What a Read that disturbs no Write returns is in order, and comes after what it has
\* returned before.
LEMMA ReadInOrder ==
  ASSUME KInv, ~Writing, ReadTakes
  PROVE  /\ p' \in BufSeq
         /\ Len(p') <= Len(buf)
         /\ \A i \in 1..Len(p') : p'[i] = buf[i]
         /\ Rising(p')
         /\ \A i \in 1..Len(p') : p'[i] # Junk =>
              p'[i] > floor /\ p'[i] <= Hi /\ \A c \in seen : c < p'[i]
         /\ buf' = SubSeq(buf, Len(p') + 1, Len(buf))
<1> USE DEF KInv
<1> DEFINE n == Least(ReadSize, Len(buf))
<1>1. n \in Nat /\ n <= Len(buf)
  BY Numbers DEF Least
<1>2. p' = SubSeq(buf, 1, n) /\ buf' = SubSeq(buf, n + 1, Len(buf))
  BY DEF ReadTakes
<1> HIDE DEF n
<1>3. p' \in BufSeq /\ Len(p') = n /\ \A i \in 1..n : p'[i] = buf[i]
  BY <1>1, <1>2, Numbers, Prefix
<1>4. \A i \in 1..n : i \in 1..Len(buf)
  BY <1>1, Numbers
<1>5. Rising(p')
  BY <1>3, <1>4 DEF Held, Rising
<1>6. \A i \in 1..Len(p') : p'[i] # Junk =>
        p'[i] > floor /\ p'[i] <= Hi /\ \A c \in seen : c < p'[i]
  BY <1>3, <1>4 DEF Held, Good
<1> QED
  BY <1>1, <1>2, <1>3, <1>5, <1>6

LEMMA KReadTakes ==
  ASSUME KInv, ~Writing, ReadTakes
  PROVE  KInv'
<1> USE DEF KInv
<1>1. /\ rd' = "out" /\ spoilt' = spoilt /\ seen' = seen \cup Real(p')
      /\ UNCHANGED <<written, stream, src, dr, chunk, err, crashed, floor>>
  BY DEF ReadTakes, drainVars, SeekerTypeOK
<1> DEFINE k == Len(p')
<1>2. k \in Nat /\ k <= Len(buf) /\ Len(p') <= k /\ buf' = SubSeq(buf, k + 1, Len(buf))
  BY ReadInOrder, Elements
<1>3. /\ p' \in BufSeq /\ Len(p') <= Len(buf) /\ Len(p') \in Nat /\ DOMAIN p' = 1..Len(p')
      /\ \A i \in 1..Len(p') : p'[i] = buf[i] /\ p'[i] \in Bytes \cup {Junk}
  BY ReadInOrder, Elements
<1>4. /\ buf' \in BufSeq /\ Len(buf') = Len(buf) - k
      /\ \A i \in 1..Len(buf') : buf'[i] = buf[k + i]
  BY <1>2, Numbers, Suffix
<1>5. Rising(buf') /\ Good(buf', Base, floor, Hi, seen)
  BY <1>2, Numbers, SuffixIsGood DEF Held
<1>6. \A c \in Real(p') : \E i \in 1..Len(p') : c = p'[i] /\ c # Junk /\ c \in Bytes
  BY <1>3 DEF Real
<1>7. seen' \subseteq Bytes
  BY <1>1, <1>6 DEF SeekerTypeOK
<1>8. \A c \in Real(p') : c <= Hi
  BY <1>6, ReadInOrder
<1>9. ASSUME NEW c \in Real(p'), NEW i \in 1..Len(buf'), buf'[i] # Junk
      PROVE  c < buf'[i]
  <2>1. PICK j \in 1..Len(p') : c = p'[j] /\ c # Junk
    BY <1>6
  <2>2. j \in 1..Len(buf) /\ k + i \in 1..Len(buf) /\ j < k + i
    BY <1>2, <1>3, <1>4, Numbers
  <2>3. c = buf[j] /\ buf'[i] = buf[k + i]
    BY <1>3, <1>4, <2>1
  <2> QED
    BY <1>9, <2>1, <2>2, <2>3 DEF Held, Rising
<1>10. SeekerTypeOK'
  BY <1>1, <1>3, <1>4, <1>7 DEF SeekerTypeOK, Bytes, BufSeq
<1>11. ChunkFits' /\ Base' = Base /\ Hi' = Hi
  BY <1>1 DEF ChunkFits, Base, Hi
<1>12. Good(buf', Base', floor', Hi', seen')
  BY <1>1, <1>5, <1>9, <1>11 DEF Good
<1>13. dr = "none" => buf' = <<>>
  <2> SUFFICES ASSUME dr = "none" PROVE buf' = <<>>
    OBVIOUS
  <2>1. buf = <<>> /\ Len(buf) = 0
    BY EmptySeq DEF Held
  <2>2. Len(buf') = 0
    BY <1>2, <1>4, <2>1
  <2> QED
    BY <1>4, <2>2, Elements
<1>14. Held'
  BY <1>1, <1>5, <1>8, <1>11, <1>12, <1>13, ReadInOrder DEF Held
<1>15. NoLostWakeup'
  BY <1>1 DEF NoLostWakeup
<1>16. Clean'
  <2>1. \A i \in 1..Len(buf') : k + i \in 1..Len(buf)
    BY <1>2, <1>4, Numbers
  <2> QED
    BY <1>1, <1>4, <2>1 DEF Clean, Writing
<1> QED
  BY <1>10, <1>11, <1>14, <1>15, <1>16

\* A Read or Seek in the middle of a Write leaves nothing that is known.
LEMMA KReadSpoils ==
  ASSUME KInv, Writing, ReadTakes
  PROVE  KInv'
<1> USE DEF KInv
<1>1. PICK n \in 0..Least(ReadSize, src) : p' = Junks(n)
  BY DEF ReadTakes
<1>2. PICK k \in 0..src : buf' = Junks(k)
  BY DEF ReadTakes
<1>3. /\ rd' = "out" /\ spoilt' = TRUE /\ seen' = seen \cup Real(p')
      /\ UNCHANGED <<written, stream, src, dr, chunk, err, crashed, floor>>
  BY DEF ReadTakes, drainVars
<1>4. p' \in BufSeq /\ Len(p') = n /\ \A i \in 1..n : p'[i] = Junk
  BY <1>1, JunksAreGood
<1>5. seen' = seen
  <2>1. DOMAIN p' = 1..n
    BY <1>4, Elements
  <2> QED
    BY <1>3, <1>4, <2>1 DEF Real
<1>6. buf' \in BufSeq /\ Rising(buf') /\ Good(buf', Base', floor', Hi', seen')
  BY <1>2, JunksAreGood
<1>7. SeekerTypeOK'
  BY <1>3, <1>4, <1>5, <1>6 DEF SeekerTypeOK, Bytes, BufSeq
<1>8. ChunkFits' /\ Clean' /\ NoLostWakeup' /\ Hi' = Hi
  BY <1>3 DEF ChunkFits, Clean, NoLostWakeup, Hi
<1>9. Held'
  BY <1>3, <1>4, <1>5, <1>6, <1>8 DEF Held, Writing
<1> QED
  BY <1>7, <1>8, <1>9

LEMMA KSeekSpoils ==
  ASSUME KInv, NEW dist \in Nat, Writing, Seek(dist)
  PROVE  KInv'
<1> USE DEF KInv
<1>1. PICK k \in 0..src : buf' = Junks(k)
  BY DEF Seek
<1>2. /\ rd = "out" /\ spoilt' = TRUE /\ floor' = floor
      /\ UNCHANGED <<written, stream, src, dr, chunk, err, rd, p, seen, crashed>>
  BY DEF Seek, Skipped, drainVars, readVars
<1>3. buf' \in BufSeq /\ Rising(buf') /\ Good(buf', Base', floor', Hi', seen')
  BY <1>1, JunksAreGood
<1>4. SeekerTypeOK'
  BY <1>2, <1>3 DEF SeekerTypeOK, Bytes, BufSeq
<1>5. ChunkFits' /\ Clean' /\ NoLostWakeup' /\ Hi' = Hi
  BY <1>2 DEF ChunkFits, Clean, NoLostWakeup, Hi
<1>6. Held'
  BY <1>2, <1>3, <1>5 DEF Held, Writing
<1> QED
  BY <1>4, <1>5, <1>6

LEMMA KSeek ==
  ASSUME KInv, NEW dist \in Nat, ~Writing, Seek(dist)
  PROVE  KInv'
<1> USE DEF KInv
<1>1. /\ rd = "out" /\ p = <<>> /\ spoilt' \in BOOLEAN /\ floor' = Skipped(dist)
      /\ UNCHANGED <<written, stream, src, dr, chunk, err, rd, p, seen, crashed>>
  BY DEF Seek, drainVars, readVars, SeekerTypeOK
<1>2. Len(p) = 0
  BY <1>1, EmptySeq
<1>3. floor' \in Nat /\ floor' <= src - Len(chunk) /\ floor' <= MaxBytes
  BY <1>1, Numbers DEF Skipped, Held, ChunkFits
\* A suffix of the buffer is left, of at most dist bytes.
<1>4. PICK k \in Nat :
        /\ k <= Len(buf)
        /\ buf' = SubSeq(buf, k + 1, Len(buf))
        /\ Len(buf) - k <= dist
  <2>1. CASE dist > 0 /\ buf' = LastOf(buf, Least(dist, Len(buf)))
    <3> DEFINE k == Len(buf) - Least(dist, Len(buf))
    <3>1. k \in Nat /\ k <= Len(buf) /\ Len(buf) - k <= dist
      BY Numbers DEF Least
    <3>2. buf' = SubSeq(buf, k + 1, Len(buf))
      BY <2>1 DEF LastOf
    <3> QED
      BY <3>1, <3>2
  <2>2. CASE dist = 0 /\ buf' = <<>>
    <3>1. SubSeq(buf, Len(buf) + 1, Len(buf)) = <<>>
      BY Numbers, SubSeqEmpty
    <3>2. Len(buf) \in Nat /\ Len(buf) <= Len(buf) /\ Len(buf) - Len(buf) <= dist
      BY Numbers
    <3> QED
      BY <2>2, <3>1, <3>2
  <2> QED
    BY <2>1, <2>2 DEF Seek
<1>5. /\ buf' \in BufSeq /\ Len(buf') = Len(buf) - k
      /\ \A i \in 1..Len(buf') : buf'[i] = buf[k + i]
  BY <1>4, Numbers, Suffix
<1>6. Rising(buf') /\ Good(buf', Base, floor, Hi, seen)
  BY <1>4, Numbers, SuffixIsGood, SMTT(30) DEF Held
<1>7. ChunkFits' /\ Base' = Base /\ Hi' = Hi
  BY <1>1 DEF ChunkFits, Base, Hi
<1>8. ASSUME NEW i \in 1..Len(buf'), buf'[i] # Junk
      PROVE  buf'[i] > floor'
  <2>1. /\ buf'[i] \in Nat /\ Len(buf') \in Nat /\ i \in 1..Len(buf')
        /\ buf'[i] + (Len(buf') - i) >= Base /\ buf'[i] > floor
    BY <1>5, <1>6, <1>8, Elements DEF Good
  <2>2. CASE spoilt'
    BY <1>1, <2>1, <2>2 DEF Skipped
  <2>3. CASE ~spoilt'
    <3>1. Base = src - Len(chunk) /\ Len(buf') <= dist
      BY <1>4, <1>5, Numbers DEF Base, Writing
    <3>2. floor' = IF src - Len(chunk) > dist THEN src - Len(chunk) - dist ELSE 0
      BY <1>1, <2>3 DEF Skipped
    <3>3. src - Len(chunk) \in Int /\ floor \in Nat
      BY Numbers
    <3> QED
      BY <2>1, <3>1, <3>2, <3>3
  <2> QED
    BY <2>2, <2>3
<1>9. Good(buf', Base', floor', Hi', seen')
  BY <1>1, <1>6, <1>7, <1>8 DEF Good
<1>10. SeekerTypeOK'
  <2>1. floor' \in 0..MaxBytes
    BY <1>3, Numbers
  <2> QED
    BY <1>1, <1>5, <2>1 DEF SeekerTypeOK, Bytes, BufSeq
<1>11. dr = "none" => buf' = <<>>
  <2> SUFFICES ASSUME dr = "none" PROVE buf' = <<>>
    OBVIOUS
  <2>1. buf = <<>> /\ Len(buf) = 0
    BY EmptySeq DEF Held
  <2>2. Len(buf') = 0
    BY <1>4, <1>5, <2>1
  <2> QED
    BY <1>5, <2>2, Elements
<1>12. Held'
  BY <1>1, <1>2, <1>3, <1>6, <1>7, <1>9, <1>11 DEF Held
<1>13. NoLostWakeup'
  BY <1>1 DEF NoLostWakeup
<1>14. Clean'
  <2> SUFFICES ASSUME ~spoilt', NEW i \in 1..Len(buf') PROVE buf'[i] # Junk
    BY DEF Clean
  <2>1. k + i \in 1..Len(buf) /\ buf'[i] = buf[k + i]
    BY <1>4, <1>5, Numbers
  <2>2. CASE ~spoilt
    BY <2>1, <2>2 DEF Clean, Writing
  <2>3. CASE ~(dist > 0)
    BY <1>4, <1>5, <2>3, Numbers
  <2>4. ~(spoilt /\ dist > 0)
    BY DEF Seek
  <2> QED
    BY <2>2, <2>3, <2>4
<1> QED
  BY <1>7, <1>10, <1>12, <1>13, <1>14

\* tail hands a byte it has read to readFromTail.
LEMMA KReceiveLine ==
  ASSUME KInv, ReceiveLine
  PROVE  KInv'
<1> USE DEF KInv
<1>1. /\ p # <<>> /\ p' = Tail(p)
      /\ UNCHANGED <<written, stream, src, dr, chunk, err, buf, spoilt, rd, seen, crashed, floor>>
  BY DEF ReceiveLine, drainVars
<1>2. p' \in BufSeq /\ Len(p') = Len(p) - 1 /\ \A i \in 1..Len(p') : p'[i] = p[i + 1]
  BY <1>1, Numbers, HeadTailProperties DEF BufSeq
<1>3. \A i \in 1..Len(p') : i + 1 \in 1..Len(p)
  BY <1>2, Numbers
<1>4. SeekerTypeOK'
  BY <1>1, <1>2 DEF SeekerTypeOK, Bytes, BufSeq
<1>5. ChunkFits' /\ NoLostWakeup' /\ Base' = Base /\ Hi' = Hi
  BY <1>1 DEF ChunkFits, NoLostWakeup, Base, Hi
<1>6. \A i \in 1..Len(p') : p'[i] # Junk => p'[i] > floor
  BY <1>2, <1>3 DEF Held
<1>7. Held' /\ Clean'
  BY <1>1, <1>5, <1>6 DEF Held, Clean, Rising, Good
<1> QED
  BY <1>4, <1>5, <1>7

LEMMA KWrap ==
  ASSUME KInv, dr = "none", WrapReadSeekClose
  PROVE  KInv'
<1> USE DEF KInv
<1>1. /\ dr' = "read"
      /\ UNCHANGED <<written, stream, src, chunk, err, buf, spoilt, rd, p, seen, crashed, floor>>
  BY DEF WrapReadSeekClose, readVars
<1>2. SeekerTypeOK'
  BY <1>1 DEF SeekerTypeOK, Bytes
<1>3. ChunkFits' /\ Base' = Base /\ Hi' = Hi
  BY <1>1 DEF ChunkFits, Base, Hi
<1>4. Held'
  BY <1>1, <1>3 DEF Held, Rising, Good
<1>5. NoLostWakeup' /\ Clean'
  BY <1>1 DEF NoLostWakeup, Clean, Held
<1> QED
  BY <1>2, <1>3, <1>4, <1>5

LEMMA KBadEntry ==
  ASSUME KInv, BadEntry
  PROVE  KInv'
BY DEF KInv, BadEntry, SeekerTypeOK, ChunkFits, Held, Clean, NoLostWakeup, Rising, Good,
   Base, Hi,
       drainVars, readVars

LEMMA KDrainStep ==
  ASSUME KInv, DrainStep
  PROVE  KInv' /\ (dr = "none" => dr' = "none")
<1>1. KInv'
  BY KDrainRead, KDrainEnds, KWriteGrow, KWriteGrowSpoilt, KWriteCopy, KWriteCopySpoilt,
     KWritePanics, KDrainCheck, KBroadcast DEF DrainStep
<1>2. dr = "none" => dr' = "none"
  BY DEF DrainStep, DrainRead, DrainEnds, WriteGrow, WriteCopy, WritePanics, DrainCheck,
         Broadcast, drainVars
<1> QED
  BY <1>1, <1>2

-----------------------------------------------------------------------------
\* Steps of the session.

LEMMA InitHolds ==
  ASSUME Init
  PROVE  IInv
<1> USE DEF Init, SeekerInit
<1>1. <<>> \in Seq(Bytes) /\ <<>> \in BufSeq /\ Len(<<>>) = 0
  BY EmptySeq DEF BufSeq
<1>2. SeekerTypeOK
  <2>1. 0 \in 0..MaxBytes /\ 0 \in 0..0 /\ {} \subseteq Bytes
    BY SeekerBounds
  <2>2. written \in 0..MaxBytes /\ src \in 0..written /\ floor \in 0..MaxBytes
    BY <2>1
  <2>3. chunk \in Seq(Bytes) /\ buf \in Seq(Bytes \cup {Junk}) /\ p \in Seq(Bytes \cup {Junk})
    BY <1>1 DEF BufSeq
  <2> QED
    BY <2>1, <2>2, <2>3 DEF SeekerTypeOK
<1>3. ChunkFits /\ Clean /\ NoLostWakeup
  BY <1>1 DEF ChunkFits, Clean, NoLostWakeup
<1>4. Held
  BY <1>1, EmptyIsGood DEF Held
<1>5. SessTypeOK /\ Stages
  BY DEF SessTypeOK, Stages
<1> QED
  BY <1>2, <1>3, <1>4, <1>5 DEF IInv, KInv

\* Types and stages of a step that neither makes the wrapper nor starts Tail's goroutines.
LEMMA SessionStays ==
  ASSUME SessTypeOK, Stages, UNCHANGED sessVars, dr = "none" => dr' = "none"
  PROVE  SessTypeOK' /\ Stages'
BY DEF SessTypeOK, Stages, sessVars

LEMMA STailStep ==
  ASSUME IInv, TailStep
  PROVE  IInv'
<1> USE DEF IInv
<1>1. CASE ReadEnv
  BY <1>1, KUnchanged DEF ReadEnv, SessTypeOK, Stages, seekerVars, drainVars
<1>2. CASE SplitEntries
  BY <1>2, KUnchanged DEF SplitEntries, SessTypeOK, Stages, seekerVars, drainVars
<1>3. CASE BadEntry
  <2>1. UNCHANGED sessVars /\ dr' = dr
    BY <1>3 DEF BadEntry, drainVars
  <2> QED
    BY <1>3, <2>1, KBadEntry, SessionStays
<1>4. CASE \E name \in LogName : CheckPath(name)
  BY <1>4, KUnchanged DEF CheckPath, SessTypeOK, Stages, seekerVars, drainVars
<1>5. CASE PathsChecked
  BY <1>5, KUnchanged DEF PathsChecked, SessTypeOK, Stages, seekerVars, drainVars
<1>6. CASE Spawn
  BY <1>6, KUnchanged DEF Spawn, SessTypeOK, Stages, seekerVars, drainVars
<1> QED
  BY <1>1, <1>2, <1>3, <1>4, <1>5, <1>6 DEF TailStep

LEMMA SLoopStep ==
  ASSUME IInv, LoopStep \/ ContainerStops
  PROVE  IInv'
<1> USE DEF IInv
<1>1. CASE LoopReady
  BY <1>1, KUnchanged DEF LoopReady, SessTypeOK, Stages, seekerVars, drainVars
<1>2. CASE LoopStopped
  BY <1>2, KUnchanged DEF LoopStopped, SessTypeOK, Stages, seekerVars, drainVars
<1>3. CASE LoopPublishes
  BY <1>3, KUnchanged DEF LoopPublishes, SessTypeOK, Stages, seekerVars, drainVars
<1>4. CASE ContainerStops
  BY <1>4, KUnchanged DEF ContainerStops, SessTypeOK, Stages, seekerVars, drainVars
<1> QED
  BY <1>1, <1>2, <1>3, <1>4 DEF LoopStep

LEMMA SStreamStep ==
  ASSUME IInv, StreamStep
  PROVE  IInv'
<1> USE DEF IInv
<1>1. CASE getReadLimit
  BY <1>1, KUnchanged DEF getReadLimit, SessTypeOK, Stages, seekerVars, drainVars
<1>2. CASE GetFails
  BY <1>2, KUnchanged DEF GetFails, SessTypeOK, Stages, seekerVars, drainVars
<1>3. CASE WrapReadSeekClose
  <2>1. dr = "none" /\ tail = "returned"
    BY <1>3 DEF WrapReadSeekClose, Stages
  <2> QED
    BY <1>3, <2>1, KWrap DEF WrapReadSeekClose, SessTypeOK, Stages
<1>4. CASE ReceiveLine
  BY <1>4, KReceiveLine DEF ReceiveLine, SessTypeOK, Stages, drainVars
<1>5. CASE PublishLine
  BY <1>5, KUnchanged DEF PublishLine, SessTypeOK, Stages, seekerVars, drainVars
<1>6. CASE Stop
  BY <1>6, KUnchanged DEF Stop, SessTypeOK, Stages, seekerVars, drainVars
<1>7. CASE StopReturns
  BY <1>7, KUnchanged DEF StopReturns, SessTypeOK, Stages, seekerVars, drainVars
<1> QED
  BY <1>1, <1>2, <1>3, <1>4, <1>5, <1>6, <1>7 DEF StreamStep

LEMMA STailGoroutine ==
  ASSUME IInv, TailSeeks \/ TailCoolsOff \/ TailReads \/ TailEnds
  PROVE  IInv'
<1> USE DEF IInv
<1>1. CASE TailSeeks
  <2>1. limit \in Nat /\ Seek(limit)
    BY <1>1, LimitsAreNats DEF TailSeeks, SessTypeOK
  <2> QED
    BY <1>1, <2>1, KSeek, KSeekSpoils DEF TailSeeks, Seek, SessTypeOK, Stages, drainVars
<1>2. CASE TailCoolsOff
  <2>1. Seek(0) /\ UNCHANGED sessVars /\ dr' = dr
    BY <1>2 DEF TailCoolsOff, Seek, drainVars
  <2> QED
    BY <2>1, KSeek, KSeekSpoils, SessionStays
<1>3. CASE TailReads
  <2>1. UNCHANGED sessVars /\ dr' = dr
    BY <1>3 DEF TailReads, ReadStep, ReadCalled, ReadLocks, ReadChecks, ReadWaits,
       ReadTakes,
                drainVars
  <2>2. KInv'
    BY <1>3, KReadMoves, KReadTakes, KReadSpoils DEF TailReads, ReadStep
  <2> QED
    BY <2>1, <2>2, SessionStays
<1>4. CASE TailEnds
  BY <1>4, KStreamEnds DEF TailEnds, Close, SessTypeOK, Stages, drainVars
<1> QED
  BY <1>1, <1>2, <1>3, <1>4

LEMMA StepHolds ==
  ASSUME IInv, [Next]_vars
  PROVE  IInv'
<1>1. CASE UNCHANGED vars
  <2>1. UNCHANGED seekerVars /\ UNCHANGED sessVars /\ dr' = dr
    BY <1>1 DEF vars, seekerVars, drainVars
  <2> QED
    BY <2>1, KUnchanged, SessionStays DEF IInv
<1>2. CASE DrainStep /\ UNCHANGED sessVars
  BY <1>2, KDrainStep, SessionStays DEF IInv
<1>3. CASE DockerStep /\ UNCHANGED sessVars
  <2>1. dr' = dr
    BY <1>3 DEF DockerStep, StreamWrites, StreamEnds, drainVars
  <2>2. KInv'
    BY <1>3, KStreamWrites, KStreamEnds DEF DockerStep, IInv
  <2> QED
    BY <1>3, <2>1, <2>2, SessionStays DEF IInv
<1> QED
  BY <1>1, <1>2, <1>3, STailStep, SLoopStep, SStreamStep, STailGoroutine DEF Next

\* Every reachable state of a session has the invariant.
LEMMA IInvHolds == Spec => []IInv
<1>1. Init => IInv
  BY InitHolds
<1>2. IInv /\ [Next]_vars => IInv'
  BY StepHolds
<1> QED
  BY <1>1, <1>2, PTL DEF Spec

-----------------------------------------------------------------------------
\* The variables keep their types: the buffer, chunks and what Read returns hold bytes
\* docker has sent or bytes not copied yet, and no bound is exceeded (seeker.go,
\* instance.go, pubchannel.go).
THEOREM StreamTypes == Spec => []TypeOK
<1>1. IInv => TypeOK
  BY DEF IInv, KInv, SessTypeOK, TypeOK
<1> QED
  BY <1>1, IInvHolds, PTL

\* Drain and Read do not miss each other, although Drain looks at the buffer without the
\* lock (Drain and Read of seeker.go).
THEOREM WakeupsArrive == Spec => []NoLostWakeup
<1>1. IInv => NoLostWakeup
  BY DEF IInv, KInv
<1> QED
  BY <1>1, IInvHolds, PTL

\* After Seek nothing is read that it was to skip, whatever comes between Drain's reads and
\* Writes, unless a Read or Seek falls into the middle of a Write (Seek of seeker.go).
THEOREM SeekIsKept == Spec => []SeekSkips
<1>1. ASSUME IInv PROVE SeekSkips
  <2>1. DOMAIN p = 1..Len(p) /\ \A i \in 1..Len(p) : p[i] # Junk => p[i] > floor
    BY <1>1, Numbers, Elements DEF IInv, KInv, Held
  <2> QED
    BY <2>1 DEF SeekSkips, Real
<1> QED
  BY <1>1, IInvHolds, PTL

\* Bytes are read in the order in which docker sent them, none twice and none before it is
\* copied, as long as no Read or Seek falls into the middle of a Write, and again once a
\* Seek(0) has emptied the buffer (Drain and Read of seeker.go).
THEOREM BytesStayInOrder == Spec => InOrder
<1> DEFINE Taken ==
      rd = "take" /\ rd' = "out" /\ ~spoilt' =>
        /\ \A b \in Real(p'), c \in seen : b > c
        /\ \A i \in DOMAIN p' : p'[i] # Junk
        /\ \A i, j \in DOMAIN p' : i < j => p'[i] < p'[j]
<1>1. ASSUME IInv, [Next]_vars PROVE [Taken]_seekerVars
  <2> SUFFICES ASSUME rd = "take", rd' = "out", ~spoilt'
               PROVE  /\ \A b \in Real(p'), c \in seen : b > c
                      /\ \A i \in DOMAIN p' : p'[i] # Junk
                      /\ \A i, j \in DOMAIN p' : i < j => p'[i] < p'[j]
    OBVIOUS
  <2>1. ReadTakes
    <3>1. rd' # rd
      OBVIOUS
    <3>2. ~UNCHANGED vars /\ ~UNCHANGED seekerVars
      BY <3>1 DEF vars, seekerVars, readVars
    <3>3. ~(DrainStep \/ DockerStep)
      BY <3>1 DEF DrainStep, DrainRead, DrainEnds, WriteGrow, WriteCopy, WritePanics,
                  DrainCheck, Broadcast, DockerStep, StreamWrites, StreamEnds, readVars
    <3>4. ~TailStep /\ ~LoopStep /\ ~ContainerStops
      BY <3>1, <3>2 DEF TailStep, ReadEnv, SplitEntries, BadEntry, CheckPath, PathsChecked,
         Spawn,
                  LoopStep, LoopReady, LoopStopped, LoopPublishes, ContainerStops, readVars
    <3>5. ~StreamStep
      BY <3>1, <3>2 DEF StreamStep, getReadLimit, GetFails, WrapReadSeekClose, ReceiveLine,
                  PublishLine, Stop, StopReturns, readVars
    <3>6. ~TailSeeks /\ ~TailCoolsOff /\ ~TailEnds
      BY <3>1 DEF TailSeeks, TailCoolsOff, TailEnds, Seek, Close, readVars
    <3>7. TailReads
      BY <1>1, <3>2, <3>3, <3>4, <3>5, <3>6 DEF Next
    <3> QED
      BY <3>7 DEF TailReads, ReadStep, ReadCalled, ReadLocks, ReadChecks, ReadWaits
  <2>2. ~Writing /\ ~spoilt
    BY <2>1 DEF ReadTakes
  <2>3. /\ p' \in BufSeq /\ Len(p') <= Len(buf) /\ Rising(p')
        /\ \A i \in 1..Len(p') : p'[i] = buf[i]
        /\ \A i \in 1..Len(p') : p'[i] # Junk => \A c \in seen : c < p'[i]
    BY <1>1, <2>1, <2>2, ReadInOrder DEF IInv
  <2>4. DOMAIN p' = 1..Len(p') /\ Len(p') \in Nat
    BY <2>3, Elements
  <2>5. \A i \in DOMAIN p' : p'[i] # Junk
    <3>1. SeekerTypeOK /\ Clean
      BY <1>1 DEF IInv, KInv
    <3>2. \A i \in 1..Len(p') : i \in 1..Len(buf)
      BY <2>3, <2>4, <3>1, Numbers
    <3> QED
      BY <2>2, <2>3, <2>4, <3>1, <3>2 DEF Clean, Writing
  <2>6. \A i, j \in DOMAIN p' : i < j => p'[i] < p'[j]
    BY <2>3, <2>4, <2>5 DEF Rising
  <2>7. ASSUME NEW b \in Real(p'), NEW c \in seen PROVE b > c
    <3>1. PICK i \in 1..Len(p') : b = p'[i] /\ b # Junk
      BY <2>4 DEF Real
    <3>2. c < b
      BY <2>3, <3>1
    <3> QED
      BY <3>2
  <2> QED
    BY <2>5, <2>6, <2>7
<1> QED
  BY <1>1, IInvHolds, PTL DEF Spec, InOrder

-----------------------------------------------------------------------------
\* While Tail sends an event on the unbuffered pubch.Ch, the loop that receives is there:
\* nobody who could close stopCh in the loop's first 100 ms is started before Tail is
\* through with getLogFiles.  Otherwise Tail would hang and its container never leave
\* started_instances.
EventsFindLoop == tail \in {"large", "warn", "error"} => loop # "gone"

\* The loop ends only after stopCh is closed, stopCh is closed only by the goroutine that
\* waits for the container, and that one is started by the last step of Tail.
LoopInv ==
  /\ loop = "gone" => stop
  /\ stop => waiter = "done"
  /\ waiter # "none" => tail = "returned"

LEMMA LoopStays == LoopInv /\ UNCHANGED <<tail, loop, waiter, stop>> => LoopInv'
BY DEF LoopInv

LEMMA StepKeepsLoop == LoopInv /\ [Next]_vars => LoopInv'
<1> SUFFICES ASSUME LoopInv, [Next]_vars PROVE LoopInv'
  OBVIOUS
<1>1. CASE TailStep
  BY <1>1 DEF LoopInv, TailStep, ReadEnv, SplitEntries, BadEntry, CheckPath, PathsChecked,
              Spawn, sessVars
<1>2. CASE LoopStep
  BY <1>2 DEF LoopInv, LoopStep, LoopReady, LoopStopped, LoopPublishes
<1>3. CASE ContainerStops
  BY <1>3 DEF LoopInv, ContainerStops
<1>4. CASE StreamStep
  BY <1>4, LoopStays DEF StreamStep, getReadLimit, GetFails, WrapReadSeekClose, ReceiveLine,
                         PublishLine, Stop, StopReturns
<1>5. CASE TailSeeks \/ TailCoolsOff \/ TailReads \/ TailEnds
  BY <1>5, LoopStays DEF TailSeeks, TailCoolsOff, TailReads, TailEnds, sessVars
<1>6. CASE UNCHANGED sessVars
  BY <1>6, LoopStays DEF sessVars
<1> QED
  BY <1>1, <1>2, <1>3, <1>4, <1>5, <1>6 DEF Next, vars

\* No event of getLogFiles is sent to a PubChannel whose loop has ended (Tail of
\* instance.go, loop of pubchannel.go).
THEOREM TailFindsItsLoop == Spec => []EventsFindLoop
<1>1. Init => LoopInv
  BY DEF Init, LoopInv
<1>2. LoopInv => EventsFindLoop
  BY DEF LoopInv, EventsFindLoop
<1> QED
  BY <1>1, <1>2, StepKeepsLoop, PTL DEF Spec
===============================================================================
