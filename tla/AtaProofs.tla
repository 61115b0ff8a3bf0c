----------------------------- MODULE AtaProofs -----------------------------
(***************************************************************************)
(* Proofs about Ata, for every size of the registers, the sectors and the  *)
(* requests, every drive and every sector at which it fails: the driver    *)
(* keeps to the protocol, and a call that returns has moved what it was    *)
(* asked to, unless the drive failed after it had the words of a sector.   *)
(***************************************************************************)
EXTENDS Ata, SequenceTheorems, TLAPS

SectorType == [1 .. SectorBytes -> Int]

TypeInv ==
  /\ drive \in Drives
  /\ disk \in [0 .. drive.sectors - 1 -> SectorType]
  /\ before \in [0 .. drive.sectors - 1 -> SectorType]
  /\ state \in {"idle", "seek", "ready", "flush", "error"}
  /\ taskfile \in [lo : 0 .. ByteMod - 1, mid : 0 .. ByteMod - 1, hi : 0 .. ByteMod - 1,
                   top : 0 .. TopMod - 1, cmd : {"read", "write"}]
  /\ words \in 0 .. SectorWords /\ word \in 0 .. SectorWords
  /\ pc \in {"idle", "bsy", "wait", "drq", "words"}
  /\ op \in [kind : {"read", "write"}, lba : 0 .. WordMod - 1, count : 0 .. MaxCount]
  /\ sector \in 0 .. op.count
  /\ buffer \in [1 .. MaxCount * SectorBytes -> Int]
  /\ result \in {-1, 0}

\* How far the driver and the drive are with each other.
PhaseInv ==
  /\ pc \in {"idle", "bsy"} => state \in {"idle", "flush", "error"}
  /\ pc = "wait" => state \in {"seek", "ready", "error"} /\ words = 0
  /\ pc = "drq" => state \in {"ready", "error"} /\ words = 0
  /\ pc = "words" =>
       /\ words = word
       /\ word < SectorWords => state = "ready"
       /\ word = SectorWords =>
            state = "idle" \/ (state \in {"flush", "error"} /\ op.kind = "write")
  /\ pc \in {"wait", "drq", "words"} =>
       sector < op.count /\ taskfile = TaskFile((op.lba + sector) % WordMod)
  /\ state = "ready" => Good(Addressed)
  /\ state = "flush" => Addressed \in DOMAIN disk /\ port \in SectorType
  /\ pc # "idle" => ~ Refused(op.lba, op.count)

\* What sector k of the request brings to place j of the buffer.
Brought(j) ==
  LET k == (j - 1) \div SectorBytes
      i == (j - 1) % SectorBytes
  IN  IF i % 2 = 1 THEN 0 ELSE before[Place(k)][i + 1]

\* The bytes of the buffer a read has brought so far.
Filled ==
  {j \in DOMAIN Fresh :
     LET k == (j - 1) \div SectorBytes
         i == (j - 1) % SectorBytes
     IN  k < sector \/ (k = sector /\ pc = "words" /\ i < 2 * word)}

ReadInv ==
  pc # "idle" /\ op.kind = "read" =>
    /\ Settled = before
    /\ state = "ready" => port = before[Place(sector)]
    /\ buffer = [j \in DOMAIN Fresh |-> IF j \in Filled THEN Brought(j) ELSE Fresh[j]]

\* The sectors a write has given to the drive.
Given == {k \in 0 .. sector : k < sector \/ (pc = "words" /\ word = SectorWords)}
WriteInv ==
  pc # "idle" /\ op.kind = "write" =>
    /\ buffer = Fresh
    /\ pc \in {"wait", "drq"} => port = << >>
    /\ pc = "words" /\ word < SectorWords => port = SubSeq(Part(Fresh, sector), 1, 2 * word)
    /\ \A l \in DOMAIN disk :
         IF WriteFails(l) \/ \A k \in Given : Place(k) # l THEN Settled[l] = before[l]
         ELSE \E k \in Given : Place(k) = l /\ Settled[l] = Part(Fresh, k)

DataInv == ReadInv /\ WriteInv /\ TransferIsExact
AtaInv == TypeInv /\ PhaseInv /\ DataInv

-----------------------------------------------------------------------------
(* Arithmetic. *)

\* Division with remainder, and that it is the only one.
LEMMA DivMod ==
  ASSUME NEW x \in Nat, NEW d \in Nat \ {0}
  PROVE  /\ x \div d \in Nat /\ x % d \in 0 .. d - 1
         /\ x = d * (x \div d) + (x % d)
OBVIOUS

LEMMA DivModUnique ==
  ASSUME NEW d \in Nat \ {0}, NEW q \in Nat, NEW r \in 0 .. d - 1
  PROVE  (d * q + r) \div d = q /\ (d * q + r) % d = r
OBVIOUS

LEMMA TimesNat ==
  ASSUME NEW a \in Nat \ {0}, NEW b \in Nat \ {0}
  PROVE  a * b \in Nat \ {0}
OBVIOUS

\* The two parts of a number, and the remainder of one.
LEMMA ModProduct ==
  ASSUME NEW x \in Nat, NEW a \in Nat \ {0}, NEW b \in Nat \ {0}
  PROVE  /\ x % (a * b) = (x % a) + a * ((x \div a) % b)
         /\ x \div (a * b) = (x \div a) \div b
<1> DEFINE q == x \div a
           r == x % a
           u == q \div b
           v == q % b
<1>1. q \in Nat /\ r \in 0 .. a - 1 /\ x = a * q + r BY DivMod
<1>2. u \in Nat /\ v \in 0 .. b - 1 /\ q = b * u + v BY <1>1, DivMod
<1> HIDE DEF q, r, u, v
<1>3. a * b \in Nat \ {0} BY TimesNat
<1>4. a * q = (a * b) * u + a * v
  <2>1. a * q = a * (b * u + v) BY <1>2
  <2>2. a * (b * u + v) = a * (b * u) + a * v BY <1>2
  <2>3. a * (b * u) = (a * b) * u BY <1>2
  <2> QED BY <2>1, <2>2, <2>3
<1>5. a * v + r \in 0 .. (a * b) - 1
  <2>1. v + 1 <= b BY <1>2
  <2>2. a * (v + 1) <= a * b BY <1>2, <2>1
  <2>3. a * (v + 1) = a * v + a BY <1>2
  <2>4. a * v \in Nat BY <1>2
  <2>5. a * b \in Nat BY <1>3
  <2> HIDE DEF q
  <2> QED BY <1>1, <2>2, <2>3, <2>4, <2>5
<1>6. x = (a * b) * u + (a * v + r)
  <2>1. a * v \in Nat /\ a * q \in Nat BY <1>1, <1>2
  <2>2. (a * b) * u \in Nat BY <1>2, <1>3
  <2> QED BY <1>1, <1>4, <2>1, <2>2
<1>7. x % (a * b) = a * v + r /\ x \div (a * b) = u
  BY <1>2, <1>3, <1>5, <1>6, DivModUnique
<1>8. a * v \in Nat BY <1>2
<1> QED BY <1>1, <1>7, <1>8 DEF q, r, u, v

LEMMA ModMod ==
  ASSUME NEW x \in Nat, NEW a \in Nat \ {0}, NEW b \in Nat \ {0}, b % a = 0
  PROVE  (x % b) % a = x % a
<1> DEFINE c == b \div a
           q == x \div b
           r == x % b
           u == r \div a
           v == r % a
<1>1. c \in Nat /\ b = a * c
  <2>1. b = a * (b \div a) + (b % a) /\ b \div a \in Nat BY DivMod
  <2> QED BY <2>1
<1>2. q \in Nat /\ r \in 0 .. b - 1 /\ x = b * q + r BY DivMod
<1>0. r \in Nat BY <1>2
<1>3. u \in Nat /\ v \in 0 .. a - 1 /\ r = a * u + v BY <1>0, DivMod
<1> HIDE DEF c, q, r, u, v
<1>4. b * q = a * (c * q)
  BY <1>1, <1>2
<1>5. c * q \in Nat BY <1>1, <1>2
<1>6. a * (c * q) + a * u = a * (c * q + u) BY <1>3, <1>5
<1>7. x = a * (c * q + u) + v
  <2>1. a * (c * q) \in Nat /\ a * u \in Nat BY <1>3, <1>5
  <2> QED BY <1>2, <1>3, <1>4, <1>6, <2>1
<1>8. x % a = v
  <2>1. c * q + u \in Nat BY <1>3, <1>5
  <2> QED BY <1>3, <1>7, <2>1, DivModUnique
<1> QED BY <1>8 DEF v, r

LEMMA SectorBytesNat == SectorWords \in Nat \ {0} /\ SectorBytes \in Nat \ {0}
  BY AtaAssumption DEF SectorBytes

\* The four registers hold the number of a sector up to LbaSpace.
LEMMA AddressOfTaskFile ==
  ASSUME NEW l \in Nat, taskfile = TaskFile(l)
  PROVE  Addressed = l % LbaSpace
<1> DEFINE B == ByteMod
           BB == ByteMod * ByteMod
           BBB == ByteMod * ByteMod * ByteMod
<1>1. B \in Nat \ {0} /\ TopMod \in Nat \ {0} BY AtaAssumption
<1>2. BB \in Nat \ {0} BY <1>1, TimesNat
<1>3. BBB \in Nat \ {0} BY <1>1, <1>2, TimesNat
<1> DEFINE lo == l % B
           mid == (l \div B) % B
           hi == (l \div BB) % B
           top == (l \div BBB) % TopMod
<1>4. l % BB = lo + B * mid BY <1>1, ModProduct
<1>5. l % BBB = (l % BB) + BB * hi BY <1>1, <1>2, ModProduct
<1>6. l % LbaSpace = (l % BBB) + BBB * top BY <1>1, <1>3, ModProduct DEF LbaSpace
<1>7. /\ lo \in Nat /\ mid \in Nat /\ hi \in Nat /\ top \in Nat
  <2>1. l \div B \in Nat /\ l \div BB \in Nat /\ l \div BBB \in Nat
    BY <1>1, <1>2, <1>3, DivMod
  <2> QED BY <1>1, <2>1, DivMod
<1>8. Addressed = lo + B * (mid + B * (hi + B * top))
  BY DEF Addressed, TaskFile
<1> HIDE DEF lo, mid, hi, top
<1>9. B * (hi + B * top) = B * hi + B * (B * top) BY <1>1, <1>7
<1>10. B * (mid + B * (hi + B * top)) = B * mid + (B * (B * hi) + B * (B * (B * top)))
  <2>1. B * hi \in Nat /\ B * (B * top) \in Nat BY <1>1, <1>7
  <2> QED BY <1>1, <1>7, <1>9, <2>1
<1>11. B * (B * hi) = BB * hi /\ B * (B * (B * top)) = BBB * top BY <1>1, <1>7
<1>12. B * mid \in Nat /\ BB * hi \in Nat /\ BBB * top \in Nat
  BY <1>1, <1>2, <1>3, <1>7
<1> HIDE DEF B, BB, BBB
<1> QED BY <1>4, <1>5, <1>6, <1>7, <1>8, <1>10, <1>11, <1>12

\* The registers the driver sets for a sector address its place.
LEMMA AddressIsPlace ==
  ASSUME TypeInv, taskfile = TaskFile((op.lba + sector) % WordMod)
  PROVE  Addressed = Place(sector)
<1>1. op.lba + sector \in Nat
  <2>1. WordMod \in Nat /\ MaxCount \in Nat BY AtaAssumption
  <2>2. op.lba \in 0 .. WordMod - 1 /\ op.count \in 0 .. MaxCount BY DEF TypeInv
  <2>3. sector \in 0 .. op.count BY DEF TypeInv
  <2> QED BY <2>1, <2>2, <2>3
<1>2. WordMod \in Nat \ {0} /\ LbaSpace \in Nat \ {0} /\ WordMod % LbaSpace = 0
  <2>1. ByteMod * ByteMod \in Nat \ {0} BY AtaAssumption, TimesNat
  <2>2. ByteMod * ByteMod * ByteMod \in Nat \ {0} BY <2>1, AtaAssumption, TimesNat
  <2>3. LbaSpace \in Nat \ {0} BY <2>2, AtaAssumption, TimesNat DEF LbaSpace
  <2> QED BY <2>3, AtaAssumption
<1>3. (op.lba + sector) % WordMod \in Nat
  <2> DEFINE l == op.lba + sector
  <2>1. l \in Nat BY <1>1
  <2> HIDE DEF l
  <2>2. l % WordMod \in 0 .. WordMod - 1 BY <1>2, <2>1, DivMod
  <2> QED BY <1>2, <2>2 DEF l
<1>4. Addressed = ((op.lba + sector) % WordMod) % LbaSpace
  BY <1>3, AddressOfTaskFile
<1> QED BY <1>1, <1>2, <1>4, ModMod DEF Place

-----------------------------------------------------------------------------
(* What one word does. *)

\* The buffer of a caller, and a sector of it.
LEMMA PartOfFresh ==
  ASSUME NEW s \in Nat, s < MaxCount
  PROVE  /\ Part(Fresh, s) \in Seq(Int) /\ Len(Part(Fresh, s)) = SectorBytes
         /\ Part(Fresh, s) \in SectorType
<1>1. MaxCount \in Nat /\ SectorBytes \in Nat \ {0}
  BY AtaAssumption, SectorBytesNat
<1> DEFINE m == s * SectorBytes + 1
           n == (s + 1) * SectorBytes
<1>2. m \in Int /\ n \in Int /\ m >= 1 /\ n - m + 1 = SectorBytes BY <1>1
<1>3. n <= MaxCount * SectorBytes
  <2>1. s + 1 <= MaxCount BY <1>1
  <2> QED BY <1>1, <2>1
<1>4. MaxCount * SectorBytes \in Nat BY <1>1
<1> HIDE DEF m, n
<1>5. \A i \in m .. n : Fresh[i] \in Int BY <1>2, <1>3, <1>4 DEF Fresh
<1>6. SubSeq(Fresh, m, n) \in Seq(Int) /\ Len(SubSeq(Fresh, m, n)) = SectorBytes
  BY <1>1, <1>2, <1>5, SubSeqProperties
<1>7. Part(Fresh, s) = SubSeq(Fresh, m, n) BY DEF Part, m, n
<1>8. SubSeq(Fresh, m, n) \in [1 .. SectorBytes -> Int] BY <1>6, LenProperties
<1> QED BY <1>6, <1>7, <1>8 DEF SectorType

\* Two more bytes of a sequence.
LEMMA NextWord ==
  ASSUME NEW S, NEW p \in Seq(S), NEW w \in Nat, 2 * w + 2 <= Len(p)
  PROVE  /\ SubSeq(p, 1, 2 * w) \o WordAt(p, w) = SubSeq(p, 1, 2 * (w + 1))
         /\ SubSeq(p, 1, 2 * 0) = << >>
<1>1. Len(p) \in Nat BY LenProperties
<1> DEFINE a == SubSeq(p, 1, 2 * w)
           x == p[2 * w + 1]
           y == p[2 * w + 2]
<1>2. x \in S /\ y \in S BY <1>1, ElementOfSeq
<1>3. SubSeq(p, 1, 2 * w + 1) = a \o <<x>>
  <2>1. 2 * w + 1 \in 1 .. Len(p) /\ (2 * w + 1) - 1 = 2 * w /\ 1 \in 1 .. Len(p) BY <1>1
  <2> QED BY <2>1, SubSeqRecursiveSecond
<1>4. SubSeq(p, 1, 2 * w + 2) = SubSeq(p, 1, 2 * w + 1) \o <<y>>
  <2>1. 2 * w + 2 \in 1 .. Len(p) /\ (2 * w + 2) - 1 = 2 * w + 1 /\ 1 \in 1 .. Len(p) BY <1>1
  <2> QED BY <2>1, SubSeqRecursiveSecond
<1>5. a \in Seq(S)
  <2>1. \A i \in 1 .. 2 * w : p[i] \in S BY <1>1, ElementOfSeq
  <2> QED BY <2>1, SubSeqProperties
<1> HIDE DEF a, x, y
<1>6. /\ <<x>> \in Seq(S) /\ <<y>> \in Seq(S) /\ <<x, y>> \in Seq(S)
      /\ <<x>> \o <<y>> = <<x, y>>
  <2>1. <<x>> \in Seq(S) /\ <<y>> \in Seq(S) /\ <<x, y>> \in Seq(S) BY <1>2
  <2>2. /\ <<x>> \o <<y>> \in Seq(S) /\ Len(<<x>> \o <<y>>) = 2
        /\ (<<x>> \o <<y>>)[1] = x /\ (<<x>> \o <<y>>)[2] = y
    BY <2>1, ConcatProperties
  <2>3. Len(<<x, y>>) = 2 /\ <<x, y>>[1] = x /\ <<x, y>>[2] = y OBVIOUS
  <2>4. \A i \in 1 .. 2 : (<<x>> \o <<y>>)[i] = <<x, y>>[i] BY <2>2, <2>3
  <2> QED BY <2>1, <2>2, <2>3, <2>4, SeqEqual
<1>7. (a \o <<x>>) \o <<y>> = a \o (<<x>> \o <<y>>) BY <1>5, <1>6, ConcatAssociative
<1>8. SubSeq(p, 1, 2 * 0) = << >> BY SubSeqEmpty
<1>9. WordAt(p, w) = <<x, y>> BY DEF WordAt, x, y
<1>10. 2 * (w + 1) = 2 * w + 2 OBVIOUS
<1> QED BY <1>3, <1>4, <1>6, <1>7, <1>8, <1>9, <1>10 DEF a

\* The sector and the byte in it that place j of a buffer is.
LEMMA PlaceInBuffer ==
  ASSUME NEW j \in Nat \ {0}
  PROVE  LET k == (j - 1) \div SectorBytes
             i == (j - 1) % SectorBytes
         IN  /\ k \in Nat /\ i \in 0 .. SectorBytes - 1
             /\ j = k * SectorBytes + i + 1
             /\ \A s \in Nat, r \in 0 .. SectorBytes - 1 :
                  j = s * SectorBytes + r + 1 => k = s /\ i = r
<1> DEFINE k == (j - 1) \div SectorBytes
           i == (j - 1) % SectorBytes
<1>1. SectorBytes \in Nat \ {0} BY SectorBytesNat
<1>2. k \in Nat /\ i \in 0 .. SectorBytes - 1 /\ j - 1 = SectorBytes * k + i
  <2>1. j - 1 \in Nat OBVIOUS
  <2> QED BY <1>1, <2>1, DivMod
<1>3. ASSUME NEW s \in Nat, NEW r \in 0 .. SectorBytes - 1,
             j = s * SectorBytes + r + 1
      PROVE  k = s /\ i = r
  <2>1. j - 1 = SectorBytes * s + r BY <1>1, <1>3
  <2> QED BY <1>1, <2>1, DivModUnique
<1> HIDE DEF k, i
<1>4. j = k * SectorBytes + i + 1 BY <1>1, <1>2
<1> QED BY <1>2, <1>3, <1>4 DEF k, i

-----------------------------------------------------------------------------
(* One lemma per action. *)

LEMMA FreshType == Fresh \in [1 .. MaxCount * SectorBytes -> Int]
  BY DEF Fresh

LEMMA SettledType ==
  ASSUME TypeInv, PhaseInv
  PROVE  Settled \in [0 .. drive.sectors - 1 -> SectorType]
<1>1. disk \in [0 .. drive.sectors - 1 -> SectorType] BY DEF TypeInv
<1>2. state = "flush" => port \in SectorType BY DEF PhaseInv
<1> QED BY <1>1, <1>2 DEF Settled

LEMMA AtaInit == Init => AtaInv
<1> SUFFICES ASSUME Init PROVE AtaInv OBVIOUS
<1>1. drive \in Drives /\ drive.sectors \in Nat BY AtaAssumption DEF Init
<1>2. disk \in [0 .. drive.sectors - 1 -> SectorType] /\ before = disk
  BY <1>1, SectorBytesNat DEF Init, SectorType
<1>3. {ByteMod, TopMod, WordMod, MaxCount} \subseteq Nat \ {0} BY AtaAssumption
<1>4. taskfile \in [lo : 0 .. ByteMod - 1, mid : 0 .. ByteMod - 1, hi : 0 .. ByteMod - 1,
                    top : 0 .. TopMod - 1, cmd : {"read", "write"}]
  BY <1>3 DEF Init
<1>5. op \in [kind : {"read", "write"}, lba : 0 .. WordMod - 1, count : 0 .. MaxCount]
      /\ sector \in 0 .. op.count
  BY <1>3 DEF Init
<1>6. TypeInv
  BY <1>1, <1>2, <1>4, <1>5, FreshType, SectorBytesNat DEF Init, TypeInv
<1>7. PhaseInv BY DEF Init, PhaseInv
<1>8. DataInv BY DEF Init, DataInv, ReadInv, WriteInv, TransferIsExact, Settled
<1> QED BY <1>6, <1>7, <1>8 DEF AtaInv

\* A call that is refused has done nothing, and one that begins has moved
\* nothing yet.
LEMMA CallKeeps ==
  ASSUME AtaInv, NEW kind \in {"read", "write"}, NEW r \in Requests,
         Call(kind, r[1], r[2])
  PROVE  AtaInv'
<1> USE DEF AtaInv, DataInv, WriteFails
<1>1. /\ op' = [kind |-> kind, lba |-> r[1], count |-> r[2]]
      /\ r[1] \in 0 .. WordMod - 1 /\ r[2] \in 0 .. MaxCount
  BY AtaAssumption DEF Call
<1>2. /\ pc = "idle" /\ buffer' = Fresh /\ before' = Settled /\ sector' = 0 /\ word' = 0
      /\ UNCHANGED <<drive, disk, state, taskfile, port, words>>
      /\ \/ pc' = "idle" /\ result' = -1
         \/ pc' = "bsy" /\ ~ Refused(r[1], r[2]) /\ result' = result
  BY DEF Call, device
<1>3. Settled' = before' BY <1>2 DEF Settled, Addressed
<1>4. before' \in [0 .. drive'.sectors - 1 -> SectorType] BY <1>2, SettledType
<1>5. op' \in [kind : {"read", "write"}, lba : 0 .. WordMod - 1, count : 0 .. MaxCount]
      /\ sector' \in 0 .. op'.count
  BY <1>1, <1>2, AtaAssumption
<1>6. TypeInv'
  BY <1>2, <1>4, <1>5, FreshType, SectorBytesNat DEF TypeInv, SectorType
<1>7. PhaseInv'
  <2>1. pc' # "idle" => ~ Refused(op'.lba, op'.count) BY <1>1, <1>2
  <2>2. state' \in {"idle", "flush", "error"} BY <1>2 DEF PhaseInv
  <2>3. state' = "flush" => Addressed' \in DOMAIN disk' /\ port' \in SectorType
    BY <1>2 DEF PhaseInv, Addressed
  <2> QED BY <1>2, <2>1, <2>2, <2>3 DEF PhaseInv, Refused, SectorType
<1>8. ReadInv'
  <2>1. Filled' = {}
    <3>1. \A j \in DOMAIN Fresh : (j - 1) \div SectorBytes \in Nat
      BY PlaceInBuffer DEF Fresh
    <3> QED BY <1>2, <3>1 DEF Filled, Fresh
  <2>2. state' # "ready" BY <1>2 DEF PhaseInv
  <2>3. Fresh = [j \in DOMAIN Fresh |-> Fresh[j]] BY FreshType
  <2>4. buffer' = [j \in DOMAIN Fresh |->
                     IF j \in Filled' THEN Brought(j)' ELSE Fresh[j]]
    BY <1>2, <2>1, <2>3
  <2> QED BY <1>3, <2>2, <2>4 DEF ReadInv, Fresh
<1>9. WriteInv'
  <2>1. pc' # "idle" => pc' = "bsy" /\ Given' = {} BY <1>2 DEF Given
  <2> QED BY <1>2, <1>3, <2>1 DEF WriteInv, Fresh
<1>10. TransferIsExact' BY <1>2, <1>3 DEF TransferIsExact, Fresh
<1> QED BY <1>6, <1>7, <1>8, <1>9, <1>10

\* The waits move nothing.
LEMMA WaitKeeps ==
  ASSUME AtaInv, WaitBsy \/ WaitDrq
  PROVE  AtaInv'
<1> USE DEF AtaInv, DataInv, WriteFails
<1>1. /\ UNCHANGED <<drive, disk, state, taskfile, port, words, op, sector, buffer, result, before>>
      /\ pc \in {"wait", "drq"} /\ pc' \in {"drq", "words"}
      /\ pc' = "drq" => pc = "wait" /\ word' = word /\ ~ Busy
      /\ pc' = "words" => pc = "drq" /\ word' = 0 /\ state = "ready"
  BY DEF WaitBsy, WaitDrq, device, Ready
<1>2. TypeInv' BY <1>1, SectorBytesNat DEF TypeInv, SectorType
<1>3. /\ Addressed' = Addressed /\ Settled' = Settled
      /\ Good(Addressed)' = Good(Addressed)
      /\ \A k : Place(k)' = Place(k)
  BY <1>1 DEF Settled, Addressed, Good, WriteFails, Place
<1>4. PhaseInv'
  BY <1>1, <1>3, SectorBytesNat DEF PhaseInv, Busy, TaskFile, Refused, SectorType
<1>5. ReadInv'
  <2>1. Filled' = Filled
    <3>1. \A j \in DOMAIN Fresh : (j - 1) % SectorBytes \in Nat
      BY PlaceInBuffer, SectorBytesNat DEF Fresh
    <3> QED BY <1>1, <3>1 DEF Filled, Fresh
  <2>2. \A j : Brought(j)' = Brought(j) BY <1>1, <1>3 DEF Brought
  <2>3. Place(sector)' = Place(sector) BY <1>1 DEF Place
  <2>4. ASSUME op.kind = "read"
        PROVE  buffer' = [j \in DOMAIN Fresh |->
                            IF j \in Filled' THEN Brought(j)' ELSE Fresh[j]]
    <3>1. buffer = [j \in DOMAIN Fresh |-> IF j \in Filled THEN Brought(j) ELSE Fresh[j]]
      BY <1>1, <2>4 DEF ReadInv
    <3> QED BY <1>1, <2>1, <2>2, <3>1
  <2> QED BY <1>1, <1>3, <2>3, <2>4 DEF ReadInv, Fresh
<1>6. WriteInv'
  <2>1. Given' = Given BY <1>1, SectorBytesNat DEF Given
  <2>2. \A s : Part(Fresh, s)' = Part(Fresh, s) BY DEF Part, Fresh
  <2>3. pc' = "words" /\ op.kind = "write" =>
          port' = SubSeq(Part(Fresh, sector)', 1, 2 * word')
    <3>1. SubSeq(Part(Fresh, sector)', 1, 2 * 0) = << >> BY SubSeqEmpty
    <3> QED BY <1>1, <3>1 DEF WriteInv
  <2>4. ASSUME op.kind = "write", NEW l \in DOMAIN disk
        PROVE  IF WriteFails(l)' \/ \A k \in Given' : Place(k)' # l THEN Settled'[l] = before'[l]
               ELSE \E k \in Given' : Place(k)' = l /\ Settled'[l] = Part(Fresh, k)'
    BY <1>1, <1>3, <2>1, <2>2, <2>4 DEF WriteInv
  <2>5. pc' = "drq" /\ op.kind = "write" => port' = << >> BY <1>1 DEF WriteInv
  <2> QED BY <1>1, <2>3, <2>4, <2>5 DEF WriteInv, Fresh
<1>7. TransferIsExact' BY <1>1 DEF TransferIsExact
<1> QED BY <1>2, <1>4, <1>5, <1>6, <1>7

\* The drive goes on writing in the background: what it settles to stays.
LEMMA FlushKeeps ==
  ASSUME AtaInv, Flush,
         UNCHANGED <<drive, pc, op, sector, word, buffer, result, before>>
  PROVE  AtaInv'
<1> USE DEF AtaInv, DataInv, WriteFails
<1>1. /\ state = "flush" /\ state' \in {"idle", "error"} /\ disk' = Settled
      /\ UNCHANGED <<taskfile, port, words>>
  BY DEF Flush
<1>2. Settled' = Settled BY <1>1 DEF Settled
<1>3. disk' \in [0 .. drive.sectors - 1 -> SectorType] BY <1>1, SettledType
<1>4. TypeInv' BY <1>1, <1>3 DEF TypeInv, SectorType
<1>5. PhaseInv' BY <1>1 DEF PhaseInv, Refused, TaskFile
<1>6. /\ Given' = Given /\ Filled' = Filled /\ DOMAIN disk' = DOMAIN disk
      /\ \A k : Place(k)' = Place(k)
      /\ \A j : Brought(j)' = Brought(j)
      /\ \A k : Part(Fresh, k)' = Part(Fresh, k)
  BY <1>1, <1>3 DEF Given, Filled, Fresh, Place, Brought, Part, TypeInv
<1>7. ReadInv'
  <2>1. state' # "ready" BY <1>1
  <2> QED BY <1>2, <1>6, <2>1 DEF ReadInv, Fresh
<1>8. WriteInv'
  <2>1. pc \notin {"wait", "drq"} /\ ~ (pc = "words" /\ word < SectorWords)
    BY <1>1 DEF PhaseInv
  <2> QED BY <1>2, <1>6, <2>1 DEF WriteInv, Fresh
<1>9. TransferIsExact'
  BY <1>2, <1>6 DEF TransferIsExact, Asked, Fresh
<1> QED BY <1>4, <1>5, <1>7, <1>8, <1>9

\* The drive has found the sector, and reads the one that was asked for.
LEMMA SeekKeeps ==
  ASSUME AtaInv, Seek,
         UNCHANGED <<drive, pc, op, sector, word, buffer, result, before>>
  PROVE  AtaInv'
<1> USE DEF AtaInv, DataInv, WriteFails
<1>1. /\ state = "seek" /\ state' \in {"ready", "error"} /\ pc = "wait"
      /\ state' = "ready" => Good(Addressed)
      /\ UNCHANGED <<disk, taskfile, words>>
  BY SectorBytesNat DEF Seek, PhaseInv, TypeInv
<1>2. /\ taskfile = TaskFile((op.lba + sector) % WordMod) /\ words = 0
      /\ Addressed = Place(sector)
  BY <1>1, AddressIsPlace DEF PhaseInv
<1>3. taskfile.cmd = op.kind BY <1>2 DEF TaskFile
<1>4. /\ Addressed' = Addressed /\ Settled' = Settled /\ Settled = disk
      /\ Good(Addressed)' = Good(Addressed)
      /\ Place(sector)' = Place(sector)
      /\ Given' = Given /\ Filled' = Filled
      /\ \A k : Place(k)' = Place(k)
      /\ \A j : Brought(j)' = Brought(j)
      /\ \A k : Part(Fresh, k)' = Part(Fresh, k)
  BY <1>1 DEF Addressed, Settled, Good, Place, Given, Filled, Fresh, Brought, Part
<1>5. TypeInv' BY <1>1 DEF TypeInv, SectorType
<1>6. PhaseInv' BY <1>1, <1>4 DEF PhaseInv, Refused, TaskFile
<1>7. ReadInv'
  <2>1. op.kind = "read" /\ state' = "ready" => port' = before[Place(sector)]
    BY <1>1, <1>2, <1>3, <1>4 DEF Seek, ReadInv
  <2> QED BY <1>4, <2>1 DEF ReadInv, Fresh
<1>8. WriteInv'
  <2>1. op.kind = "write" => port' = << >> BY <1>1, <1>3 DEF Seek, WriteInv
  <2> QED BY <1>1, <1>4, <2>1 DEF WriteInv, Fresh
<1>9. TransferIsExact' BY <1>1 DEF TransferIsExact
<1> QED BY <1>5, <1>6, <1>7, <1>8, <1>9

\* The words of the sector are through.
LEMMA EndSectorKeeps ==
  ASSUME AtaInv, EndSector
  PROVE  AtaInv'
<1> USE DEF AtaInv, DataInv, WriteFails
<1>1. /\ pc = "words" /\ word = SectorWords /\ pc' = "bsy" /\ sector' = sector + 1
      /\ UNCHANGED <<drive, disk, state, taskfile, port, words, op, word, buffer,
                     result, before>>
  BY DEF EndSector, device, LoopWords
<1>2. sector < op.count /\ sector \in Nat /\ op.count \in Nat
  BY <1>1, AtaAssumption DEF PhaseInv, TypeInv
<1>3. TypeInv' BY <1>1, <1>2 DEF TypeInv, SectorType
<1>4. /\ Addressed' = Addressed /\ Settled' = Settled
      /\ \A k : Place(k)' = Place(k)
      /\ \A j : Brought(j)' = Brought(j)
      /\ \A k : Part(Fresh, k)' = Part(Fresh, k)
  BY <1>1 DEF Addressed, Settled, Place, Fresh, Brought, Part
<1>5. PhaseInv'
  BY <1>1, <1>4 DEF PhaseInv, Refused, SectorType
<1>6. Filled' = Filled
  <2>1. ASSUME NEW j \in DOMAIN Fresh
        PROVE  /\ (j - 1) \div SectorBytes \in Nat
               /\ (j - 1) % SectorBytes < 2 * SectorWords
    <3>1. j \in Nat \ {0} BY DEF Fresh
    <3>2. /\ (j - 1) \div SectorBytes \in Nat
          /\ (j - 1) % SectorBytes \in 0 .. SectorBytes - 1
      BY <3>1, PlaceInBuffer
    <3>3. SectorBytes = 2 * SectorWords BY DEF SectorBytes
    <3> QED BY <3>2, <3>3, SectorBytesNat
  <2> QED BY <1>1, <1>2, <2>1 DEF Filled, Fresh
<1>7. Given' = Given BY <1>1, <1>2 DEF Given
<1>8. ReadInv'
  <2>1. state' # "ready" BY <1>1 DEF PhaseInv
  <2> QED BY <1>1, <1>4, <1>6, <2>1 DEF ReadInv, Fresh
<1>9. WriteInv' BY <1>1, <1>4, <1>7 DEF WriteInv, Fresh
<1>10. TransferIsExact' BY <1>1 DEF TransferIsExact
<1> QED BY <1>3, <1>5, <1>8, <1>9, <1>10

\* A request that passes the test of the bound lies on the disk, if its sum
\* does not wrap around.
LEMMA PlaceInBound ==
  ASSUME TypeInv, ~ Refused(op.lba, op.count), NEW k \in Asked,
         op.lba + op.count < WordMod
  PROVE  Place(k) < SectorCount
<1>1. /\ WordMod \in Nat /\ SectorCount \in Nat /\ MaxCount \in Nat
      /\ SectorCount <= LbaSpace
  BY AtaAssumption
<1>2. LbaSpace \in Nat \ {0}
  <2>1. ByteMod * ByteMod \in Nat \ {0} BY AtaAssumption, TimesNat
  <2>2. ByteMod * ByteMod * ByteMod \in Nat \ {0} BY <2>1, AtaAssumption, TimesNat
  <2> QED BY <2>2, AtaAssumption, TimesNat DEF LbaSpace
<1>3. op.lba \in Nat /\ op.count \in Nat /\ k \in Nat /\ k < op.count
  BY <1>1 DEF TypeInv, Asked
<1> DEFINE sum == op.lba + op.count
           l == op.lba + k
<1>4. sum \in Nat /\ sum < WordMod /\ l \in Nat /\ l < sum BY <1>3
<1>5. ~ (sum % WordMod > SectorCount) BY DEF Refused
<1>6. Place(k) = l % LbaSpace BY DEF Place
<1> HIDE DEF sum, l
<1>7. sum % WordMod = sum BY <1>1, <1>4
<1>8. l < LbaSpace /\ l < SectorCount BY <1>1, <1>2, <1>4, <1>5, <1>7
<1>9. l % LbaSpace = l BY <1>2, <1>4, <1>8
<1> QED BY <1>6, <1>8, <1>9

\* The next sector is asked for, or the call returns with all of them moved.
LEMMA NextSectorKeeps ==
  ASSUME AtaInv, NextSector
  PROVE  AtaInv'
<1> USE DEF AtaInv, DataInv, WriteFails
<1>1. pc = "bsy" /\ UNCHANGED <<drive, disk, op, sector, word, buffer, before>>
  BY DEF NextSector, device
<1>2. /\ sector \in Nat /\ op.count \in Nat /\ Filled' = Filled /\ Given' = Given
      /\ \A k : Place(k)' = Place(k)
      /\ \A j : Brought(j)' = Brought(j)
      /\ \A k : Part(Fresh, k)' = Part(Fresh, k)
  <2>1. sector \in Nat /\ op.count \in Nat BY AtaAssumption DEF TypeInv
  <2>2. pc' # "words" BY DEF NextSector
  <2> QED BY <1>1, <2>1, <2>2 DEF Filled, Given, Fresh, Place, Brought, Part
<1>3. CASE sector = op.count /\ pc' = "idle" /\ result' = 0 /\ UNCHANGED device
  <2>1. TypeInv' BY <1>1, <1>3 DEF device, TypeInv, SectorType
  <2>2. Settled' = Settled BY <1>1, <1>3 DEF device, Settled, Addressed
  <2>3. PhaseInv' BY <1>1, <1>3 DEF device, PhaseInv, Addressed, SectorType
  <2>4. ASSUME NEW k \in Asked', op'.lba + op'.count < WordMod
        PROVE  Place(k)' < SectorCount
    <3>1. k \in Asked /\ ~ Refused(op.lba, op.count) BY <1>1 DEF Asked, PhaseInv
    <3> QED BY <1>1, <1>2, <2>4, <3>1, PlaceInBound
  <2>5. ASSUME op.kind = "read"
        PROVE  /\ Settled' = before'
               /\ buffer' = [j \in DOMAIN Fresh |->
                    LET k == (j - 1) \div SectorBytes
                        i == (j - 1) % SectorBytes
                    IN  IF k \notin Asked' THEN Fresh[j]
                        ELSE IF i % 2 = 1 THEN 0 ELSE before'[Place(k)'][i + 1]]
    <3>1. buffer = [j \in DOMAIN Fresh |-> IF j \in Filled THEN Brought(j) ELSE Fresh[j]]
      BY <1>1, <2>5 DEF ReadInv
    <3>2. ASSUME NEW j \in DOMAIN Fresh
          PROVE  j \in Filled <=> (j - 1) \div SectorBytes \in Asked'
      <4>1. (j - 1) \div SectorBytes \in Nat BY PlaceInBuffer DEF Fresh
      <4> QED BY <1>1, <1>2, <1>3, <4>1 DEF Filled, Asked
    <3> QED BY <1>1, <1>2, <2>2, <2>5, <3>1, <3>2 DEF ReadInv, Brought
  <2>6. ASSUME op.kind = "write"
        PROVE  /\ buffer' = Fresh
               /\ \A l \in DOMAIN disk' :
                    IF WriteFails(l)' \/ \A k \in Asked' : Place(k)' # l
                    THEN Settled'[l] = before'[l]
                    ELSE \E k \in Asked' : Place(k)' = l /\ Settled'[l] = Part(Fresh, k)'
    <3>1. Given = Asked' BY <1>1, <1>2, <1>3 DEF Given, Asked
    <3> QED BY <1>1, <1>2, <2>2, <2>6, <3>1 DEF WriteInv
  <2>7. op'.kind = op.kind BY <1>1
  <2>8. TransferIsExact'
    BY <1>3, <2>4, <2>5, <2>6, <2>7 DEF TransferIsExact, Fresh
  <2>9. ReadInv' /\ WriteInv' BY <1>3 DEF ReadInv, WriteInv
  <2> QED BY <2>1, <2>3, <2>8, <2>9
<1>4. CASE /\ sector < op.count /\ ~ Busy
           /\ taskfile' = TaskFile((op.lba + sector) % WordMod)
           /\ state' = "seek" /\ port' = << >> /\ words' = 0
           /\ pc' = "wait" /\ UNCHANGED result
  <2> DEFINE l == (op.lba + sector) % WordMod
  <2>1. l \in Nat
    <3>1. WordMod \in Nat \ {0} /\ op.lba \in Nat BY AtaAssumption DEF TypeInv
    <3>2. op.lba + sector \in Nat BY <1>2, <3>1
    <3> QED BY <3>1, <3>2
  <2> HIDE DEF l
  <2>2. taskfile' \in [lo : 0 .. ByteMod - 1, mid : 0 .. ByteMod - 1, hi : 0 .. ByteMod - 1,
                       top : 0 .. TopMod - 1, cmd : {"read", "write"}]
    <3>1. ByteMod \in Nat \ {0} /\ TopMod \in Nat \ {0} BY AtaAssumption
    <3> DEFINE m == l \div ByteMod
               h == l \div (ByteMod * ByteMod)
               t == l \div (ByteMod * ByteMod * ByteMod)
    <3>2. ByteMod * ByteMod \in Nat \ {0} BY <3>1, TimesNat
    <3>3. ByteMod * ByteMod * ByteMod \in Nat \ {0} BY <3>1, <3>2, TimesNat
    <3>4. m \in Nat /\ h \in Nat /\ t \in Nat BY <2>1, <3>1, <3>2, <3>3, DivMod
    <3>5. taskfile' = [lo |-> l % ByteMod, mid |-> m % ByteMod, hi |-> h % ByteMod,
                       top |-> t % TopMod, cmd |-> op.kind]
      BY <1>4 DEF TaskFile, l
    <3> HIDE DEF m, h, t
    <3>6. /\ l % ByteMod \in 0 .. ByteMod - 1 /\ m % ByteMod \in 0 .. ByteMod - 1
          /\ h % ByteMod \in 0 .. ByteMod - 1 /\ t % TopMod \in 0 .. TopMod - 1
      BY <2>1, <3>1, <3>4, DivMod
    <3>7. op.kind \in {"read", "write"} BY DEF TypeInv
    <3> QED BY <3>5, <3>6, <3>7
  <2>3. TypeInv' BY <1>1, <1>4, <2>2, SectorBytesNat DEF TypeInv, SectorType
  <2>4. Settled' = disk /\ Settled = disk
    BY <1>1, <1>4 DEF Settled, Busy
  <2>5. PhaseInv' BY <1>1, <1>4 DEF PhaseInv, TaskFile, Refused
  <2>6. ReadInv' BY <1>1, <1>2, <1>4, <2>4 DEF ReadInv, Fresh
  <2>7. WriteInv' BY <1>1, <1>2, <1>4, <2>4 DEF WriteInv, Fresh
  <2>8. TransferIsExact' BY <1>4 DEF TransferIsExact
  <2> QED BY <2>3, <2>5, <2>6, <2>7, <2>8
<1> QED BY <1>3, <1>4 DEF NextSector

\* One word, in either direction.
LEMMA TransferStep ==
  ASSUME AtaInv, Transfer
  PROVE  /\ pc = "words" /\ word \in 0 .. SectorWords - 1 /\ words = word
         /\ state = "ready" /\ words' = word + 1 /\ word' = word + 1
         /\ state' = IF word + 1 < SectorWords THEN "ready"
                     ELSE IF op.kind = "read" THEN "idle" ELSE "flush"
         /\ UNCHANGED <<drive, disk, taskfile, pc, op, sector, result, before>>
         /\ sector \in 0 .. op.count - 1 /\ op.count \in 0 .. MaxCount
         /\ Addressed = Place(sector) /\ Addressed \in DOMAIN disk
         /\ Addressed' = Addressed
         /\ Settled = disk
         /\ \A k : Place(k)' = Place(k)
         /\ \A j : Brought(j)' = Brought(j)
         /\ \A k : Part(Fresh, k)' = Part(Fresh, k)
<1> USE DEF AtaInv, DataInv, WriteFails
<1>1. /\ pc = "words" /\ word \in 0 .. SectorWords - 1 /\ words = word /\ state = "ready"
      /\ taskfile = TaskFile((op.lba + sector) % WordMod)
      /\ sector < op.count /\ Good(Addressed)
  BY SectorBytesNat DEF Transfer, LoopWords, TypeInv, PhaseInv
<1>2. /\ UNCHANGED <<drive, disk, taskfile, pc, op, sector, result, before>>
      /\ words' = word + 1 /\ word' = word + 1
      /\ state' = IF word + 1 < SectorWords THEN "ready"
                  ELSE IF op.kind = "read" THEN "idle" ELSE "flush"
  BY <1>1 DEF Transfer
<1>3. /\ sector \in 0 .. op.count - 1 /\ op.count \in 0 .. MaxCount
  BY <1>1, AtaAssumption DEF TypeInv
<1>4. Addressed = Place(sector) BY <1>1, AddressIsPlace
<1>5. Addressed \in DOMAIN disk
  <2>1. Addressed \in Nat
    <3>1. {ByteMod, TopMod} \subseteq Nat \ {0} BY AtaAssumption
    <3>2. /\ taskfile.lo \in Nat /\ taskfile.mid \in Nat /\ taskfile.hi \in Nat
          /\ taskfile.top \in Nat
      BY <3>1 DEF TypeInv
    <3>3. ByteMod * taskfile.top \in Nat BY <3>1, <3>2
    <3>4. ByteMod * (taskfile.hi + ByteMod * taskfile.top) \in Nat BY <3>1, <3>2, <3>3
    <3>5. ByteMod * (taskfile.mid + ByteMod * (taskfile.hi + ByteMod * taskfile.top)) \in Nat
      BY <3>1, <3>2, <3>4
    <3> QED BY <3>2, <3>5 DEF Addressed
  <2>2. drive.sectors \in Nat
    <3>1. drive \in Drives BY DEF TypeInv
    <3> QED BY <3>1, AtaAssumption
  <2> QED BY <1>1, <2>1, <2>2 DEF Good, TypeInv
<1>6. /\ Addressed' = Addressed /\ Settled = disk
      /\ \A k : Place(k)' = Place(k)
      /\ \A j : Brought(j)' = Brought(j)
      /\ \A k : Part(Fresh, k)' = Part(Fresh, k)
  BY <1>1, <1>2 DEF Addressed, Settled, Place, Brought, Part, Fresh
<1> QED BY <1>1, <1>2, <1>3, <1>4, <1>5, <1>6

\* A word read: its low byte and a zero go to their places in the buffer.
LEMMA ReadWordKeeps ==
  ASSUME AtaInv, Transfer, op.kind = "read"
  PROVE  AtaInv'
<1> USE DEF AtaInv, DataInv, WriteFails
<1>1. port' = port /\ buffer' = Store(inw) BY DEF Transfer
<1>2. /\ state = "ready" /\ port = before[Place(sector)]
      /\ buffer = [j \in DOMAIN Fresh |-> IF j \in Filled THEN Brought(j) ELSE Fresh[j]]
      /\ Settled = before
  BY TransferStep DEF ReadInv
<1>3. /\ SectorBytes = 2 * SectorWords /\ SectorBytes \in Nat \ {0}
      /\ SectorWords \in Nat \ {0} /\ MaxCount \in Nat
  BY SectorBytesNat, AtaAssumption DEF SectorBytes
<1> DEFINE base == sector * SectorBytes + 2 * word
<1>4. /\ base \in Nat /\ base + 2 <= MaxCount * SectorBytes
  <2>1. sector \in Nat /\ sector + 1 <= MaxCount /\ word \in 0 .. SectorWords - 1
    BY <1>3, TransferStep
  <2>2. (sector + 1) * SectorBytes <= MaxCount * SectorBytes BY <1>3, <2>1
  <2>3. (sector + 1) * SectorBytes = sector * SectorBytes + SectorBytes BY <1>3, <2>1
  <2>4. sector * SectorBytes \in Nat /\ MaxCount * SectorBytes \in Nat BY <1>3, <2>1
  <2> QED BY <1>3, <2>1, <2>2, <2>3, <2>4
<1>5. inw = <<before[Place(sector)][2 * word + 1], 0>>
  BY <1>2, TransferStep DEF inw, WordAt
<1>6. before[Place(sector)][2 * word + 1] \in Int
  <2>1. Place(sector) \in DOMAIN disk BY TransferStep
  <2>2. before[Place(sector)] \in SectorType BY <2>1 DEF TypeInv
  <2>3. 2 * word + 1 \in 1 .. SectorBytes BY <1>3, TransferStep
  <2> QED BY <2>2, <2>3 DEF SectorType
<1>7. buffer' = [buffer EXCEPT ![base + 1] = before[Place(sector)][2 * word + 1],
                               ![base + 2] = 0]
  BY <1>1, <1>5 DEF Store
<1>8. /\ buffer' \in [1 .. MaxCount * SectorBytes -> Int]
      /\ buffer'[base + 1] = before[Place(sector)][2 * word + 1]
      /\ buffer'[base + 2] = 0
      /\ \A j \in 1 .. MaxCount * SectorBytes :
           j # base + 1 /\ j # base + 2 => buffer'[j] = buffer[j]
  <2> DEFINE M == MaxCount * SectorBytes
             x == before[Place(sector)][2 * word + 1]
  <2>1. base + 1 \in 1 .. M /\ base + 2 \in 1 .. M /\ base + 1 # base + 2
    <3>1. M \in Nat BY <1>3
    <3> HIDE DEF base, M
    <3> QED BY <1>4, <3>1 DEF M
  <2>2. buffer \in [1 .. M -> Int] /\ x \in Int BY <1>6 DEF TypeInv
  <2>3. buffer' = [buffer EXCEPT ![base + 1] = x, ![base + 2] = 0] BY <1>7
  <2> HIDE DEF base, M, x
  <2>4. /\ buffer' \in [1 .. M -> Int] /\ buffer'[base + 1] = x /\ buffer'[base + 2] = 0
        /\ \A j \in 1 .. M : j # base + 1 /\ j # base + 2 => buffer'[j] = buffer[j]
    BY <2>1, <2>2, <2>3
  <2> QED BY <2>4 DEF M, x
<1>9. TypeInv'
  <2>1. /\ words' \in 0 .. SectorWords /\ word' \in 0 .. SectorWords
        /\ state' \in {"idle", "seek", "ready", "flush", "error"}
        /\ UNCHANGED <<drive, disk, taskfile, pc, op, sector, result, before>>
    BY <1>3, TransferStep
  <2> QED BY <1>8, <2>1 DEF TypeInv, SectorType
<1>10. PhaseInv'
  <2>1. Good(Addressed)' = Good(Addressed) BY TransferStep DEF Good
  <2>2. state' # "flush" BY TransferStep
  <2> QED BY <1>3, <2>1, <2>2, TransferStep DEF PhaseInv, Refused, TaskFile
<1>11. ASSUME NEW j \in DOMAIN Fresh
       PROVE  buffer'[j] = IF j \in Filled' THEN Brought(j) ELSE Fresh[j]
  <2> DEFINE k == (j - 1) \div SectorBytes
             i == (j - 1) % SectorBytes
  <2>1. j \in Nat \ {0} /\ j \in 1 .. MaxCount * SectorBytes BY DEF Fresh
  <2>2. /\ k \in Nat /\ i \in 0 .. SectorBytes - 1 /\ j = k * SectorBytes + i + 1
        /\ \A s \in Nat, r \in 0 .. SectorBytes - 1 :
             j = s * SectorBytes + r + 1 => k = s /\ i = r
    BY <2>1, PlaceInBuffer
  <2>3. /\ j \in Filled <=> k < sector \/ (k = sector /\ i < 2 * word)
        /\ j \in Filled' <=> k < sector \/ (k = sector /\ i < 2 * (word + 1))
    BY TransferStep DEF Filled, Fresh
  <2>4. Brought(j) = IF i % 2 = 1 THEN 0 ELSE before[Place(k)][i + 1] BY DEF Brought
  <2>5. /\ sector \in Nat /\ word \in 0 .. SectorWords - 1
        /\ 2 * word \in 0 .. SectorBytes - 1 /\ 2 * word + 1 \in 0 .. SectorBytes - 1
        /\ (2 * word) % 2 = 0 /\ (2 * word + 1) % 2 = 1
    BY <1>3, TransferStep
  <2> HIDE DEF k, i
  <2>6. CASE j = base + 1
    <3>1. k = sector /\ i = 2 * word BY <2>2, <2>5, <2>6
    <3>2. buffer'[j] = before[Place(sector)][2 * word + 1]
      BY <1>8, <2>6
    <3> QED BY <2>3, <2>4, <2>5, <3>1, <3>2
  <2>7. CASE j = base + 2
    <3>1. j = sector * SectorBytes + (2 * word + 1) + 1
      <4>1. sector * SectorBytes \in Nat BY <1>3, <2>5
      <4> QED BY <2>5, <2>7, <4>1
    <3>2. k = sector /\ i = 2 * word + 1 BY <2>2, <2>5, <3>1
    <3>3. buffer'[j] = 0 BY <1>8, <2>7
    <3> QED BY <2>3, <2>4, <2>5, <3>2, <3>3
  <2>8. CASE j # base + 1 /\ j # base + 2
    <3>1. buffer'[j] = buffer[j] BY <1>8, <2>1, <2>8
    <3>2. k = sector => i # 2 * word /\ i # 2 * word + 1
      <4>1. sector * SectorBytes \in Nat BY <1>3, <2>5
      <4> QED BY <2>2, <2>5, <2>8, <4>1
    <3>3. j \in Filled' <=> j \in Filled BY <2>2, <2>3, <2>5, <3>2
    <3> QED BY <1>2, <3>1, <3>3
  <2> QED BY <2>6, <2>7, <2>8
<1>12. ReadInv'
  <2>1. Settled' = before'
    BY <1>2, TransferStep DEF Settled
  <2>2. state' = "ready" => port' = before'[Place(sector)']
    BY <1>1, <1>2, TransferStep
  <2>3. Place(sector)' = Place(sector) BY TransferStep DEF Place
  <2>4. buffer' = [j \in DOMAIN Fresh |-> IF j \in Filled' THEN Brought(j)' ELSE Fresh[j]]
    <3>1. DOMAIN Fresh = 1 .. MaxCount * SectorBytes BY DEF Fresh
    <3>2. buffer' = [j \in DOMAIN Fresh |-> buffer'[j]] BY <1>8, <3>1
    <3> QED BY <1>11, <3>2, TransferStep
  <2> QED BY <1>1, <1>2, <2>1, <2>3, <2>4, TransferStep DEF ReadInv, Fresh
<1>13. WriteInv' /\ TransferIsExact'
  BY TransferStep DEF WriteInv, TransferIsExact
<1> QED BY <1>9, <1>10, <1>12, <1>13

\* A word written: with the last one the drive has the whole sector, and the
\* disk will hold it at its place.
LEMMA WriteWordKeeps ==
  ASSUME AtaInv, Transfer, op.kind = "write"
  PROVE  AtaInv'
<1> USE DEF AtaInv, DataInv, WriteFails
<1> DEFINE P == Part(Fresh, sector)
<1>1. /\ SectorBytes = 2 * SectorWords /\ SectorWords \in Nat \ {0} /\ MaxCount \in Nat
  BY SectorBytesNat, AtaAssumption DEF SectorBytes
<1>2. sector \in Nat /\ sector < MaxCount /\ word \in 0 .. SectorWords - 1
  BY <1>1, TransferStep
<1>3. P \in Seq(Int) /\ Len(P) = SectorBytes /\ P \in SectorType
  BY <1>2, PartOfFresh
<1>4. buffer = Fresh /\ port = SubSeq(P, 1, 2 * word)
  <2>1. pc = "words" /\ word < SectorWords BY <1>1, <1>2, TransferStep
  <2> QED BY <2>1 DEF WriteInv
<1>5. buffer' = Fresh /\ port' = SubSeq(P, 1, 2 * (word + 1))
  <2>1. buffer' = buffer /\ port' = port \o WordAt(P, word)
    BY <1>4 DEF Transfer
  <2>2. 2 * word + 2 <= Len(P) /\ word \in Nat BY <1>1, <1>2, <1>3
  <2> HIDE DEF P
  <2> QED BY <1>3, <1>4, <2>1, <2>2, NextWord
<1>6. TypeInv'
  <2>1. /\ words' \in 0 .. SectorWords /\ word' \in 0 .. SectorWords
        /\ state' \in {"idle", "seek", "ready", "flush", "error"}
        /\ UNCHANGED <<drive, disk, taskfile, pc, op, sector, result, before>>
    BY <1>1, TransferStep
  <2> QED BY <1>5, <2>1, FreshType DEF TypeInv, SectorType
<1>7. word + 1 = SectorWords => port' = P
  BY <1>1, <1>3, <1>5, SubSeqFull
<1>8. PhaseInv'
  <2>1. Good(Addressed)' = Good(Addressed) BY TransferStep DEF Good
  <2>2. state' = "flush" => word + 1 = SectorWords BY <1>1, <1>2, TransferStep
  <2>3. state' = "flush" => Addressed' \in DOMAIN disk' /\ port' \in SectorType
    BY <1>3, <1>7, <2>2, TransferStep
  <2> QED BY <1>1, <1>2, <2>1, <2>3, TransferStep
          DEF PhaseInv, Refused, TaskFile, SectorType
<1>9. ASSUME NEW l \in DOMAIN disk
      PROVE  IF WriteFails(l) \/ \A k \in Given' : Place(k) # l THEN Settled'[l] = before[l]
             ELSE \E k \in Given' : Place(k) = l /\ Settled'[l] = Part(Fresh, k)
  <2>1. /\ Given = {k \in 0 .. sector : k < sector}
        /\ IF WriteFails(l) \/ \A k \in Given : Place(k) # l THEN disk[l] = before[l]
           ELSE \E k \in Given : Place(k) = l /\ disk[l] = Part(Fresh, k)
    BY <1>2, TransferStep DEF Given, WriteInv
  <2>2. CASE word + 1 < SectorWords
    <3>1. Given' = Given BY <1>2, <2>1, <2>2, TransferStep DEF Given
    <3>2. Settled' = disk BY <2>2, TransferStep DEF Settled
    <3> QED BY <2>1, <3>1, <3>2
  <2>3. CASE word + 1 = SectorWords
    <3>1. Given' = Given \cup {sector} BY <1>2, <2>1, <2>3, TransferStep DEF Given
    <3>2. Settled' = IF WriteFails(Place(sector)) THEN disk
                     ELSE [disk EXCEPT ![Place(sector)] = P]
      <4>1. state' = "flush" BY <2>3, TransferStep
      <4> QED BY <1>7, <2>3, <4>1, TransferStep DEF Settled
    <3>3. CASE l = Place(sector)
      <4>1. WriteFails(l) => Settled'[l] = before[l] BY <2>1, <3>2, <3>3
      <4>2. ~ WriteFails(l) => Settled'[l] = P
        <5>1. disk \in [DOMAIN disk -> SectorType] BY DEF TypeInv
        <5> QED BY <3>2, <3>3, <5>1
      <4> QED BY <3>1, <3>3, <4>1, <4>2
    <3>4. CASE l # Place(sector)
      <4>1. Settled'[l] = disk[l] BY <3>2, <3>4
      <4> QED BY <2>1, <3>1, <3>4, <4>1
    <3> QED BY <3>3, <3>4
  <2> QED BY <1>1, <1>2, <2>2, <2>3
<1>10. WriteInv'
  <2>1. /\ pc' = "words" /\ drive' = drive /\ disk' = disk /\ before' = before
        /\ op' = op /\ word' = word + 1
        /\ \A k : Place(k)' = Place(k)
        /\ \A k : Part(Fresh, k)' = Part(Fresh, k)
        /\ P' = P
    BY TransferStep DEF Part, Fresh
  <2>2. port' = SubSeq(P', 1, 2 * word') BY <1>5, <2>1
  <2>3. \A l \in DOMAIN disk' :
          IF WriteFails(l)' \/ \A k \in Given' : Place(k)' # l THEN Settled'[l] = before'[l]
          ELSE \E k \in Given' : Place(k)' = l /\ Settled'[l] = Part(Fresh, k)'
    BY <1>9, <2>1
  <2> QED BY <1>5, <2>1, <2>2, <2>3 DEF WriteInv, Fresh
<1>11. ReadInv' /\ TransferIsExact'
  BY TransferStep DEF ReadInv, TransferIsExact
<1> QED BY <1>6, <1>8, <1>10, <1>11

LEMMA AtaNext == AtaInv /\ [Next]_vars => AtaInv'
<1> SUFFICES ASSUME AtaInv, [Next]_vars PROVE AtaInv' OBVIOUS
<1>1. ASSUME NEW kind \in {"read", "write"}, NEW r \in Requests, Call(kind, r[1], r[2])
      PROVE  AtaInv'
  BY <1>1, CallKeeps
<1>2. CASE NextSector BY <1>2, NextSectorKeeps
<1>3. CASE WaitBsy \/ WaitDrq BY <1>3, WaitKeeps
<1>4. CASE Transfer
  BY <1>4, ReadWordKeeps, WriteWordKeeps DEF AtaInv, TypeInv
<1>5. CASE EndSector BY <1>5, EndSectorKeeps
<1>6. CASE Drive BY <1>6, SeekKeeps, FlushKeeps DEF Drive
<1>7. CASE UNCHANGED vars
  <2> USE <1>7 DEF vars, device
  <2>1. TypeInv' BY DEF AtaInv, TypeInv, SectorType
  <2>2. /\ Addressed' = Addressed /\ Settled' = Settled /\ Given' = Given /\ Filled' = Filled
        /\ Place(sector)' = Place(sector) /\ Good(Addressed)' = Good(Addressed)
        /\ \A k : Place(k)' = Place(k)
        /\ \A j : Brought(j)' = Brought(j)
        /\ \A k : Part(Fresh, k)' = Part(Fresh, k)
        /\ Part(Fresh, sector)' = Part(Fresh, sector)
    BY DEF Addressed, Settled, WriteFails, Given, Filled, Place, Good, Brought, Part, Fresh
  <2>3. PhaseInv' BY <2>2 DEF AtaInv, PhaseInv, TaskFile, Refused, SectorType
  <2>4. ReadInv' BY <2>2 DEF AtaInv, DataInv, ReadInv, Fresh
  <2>5. WriteInv' BY <2>2 DEF AtaInv, DataInv, WriteInv, WriteFails, Fresh
  <2>6. TransferIsExact' BY <2>2 DEF AtaInv, DataInv, TransferIsExact, Asked, WriteFails, Fresh
  <2> QED BY <2>1, <2>3, <2>4, <2>5, <2>6 DEF AtaInv, DataInv
<1> QED BY <1>1, <1>2, <1>3, <1>4, <1>5, <1>6, <1>7 DEF Next, Driver

-----------------------------------------------------------------------------

\* The registers, the sectors, the buffer and the loop variables stay within
\* their ranges, and the driver and the drive in step.
THEOREM AtaIsInductive == Spec => []AtaInv
<1> QED BY AtaInit, AtaNext, PTL DEF Spec

\* Whatever is asked of whichever drive: a call that returned 0 has moved what
\* it was asked to between the sectors the registers address and the buffer,
\* and nothing else, but for the sectors of a write at which the drive failed
\* after it had the words; a call that returned -1 has moved nothing.
THEOREM CallsMoveWhatTheyShould == Spec => []TransferIsExact
<1>1. AtaInv => TransferIsExact BY DEF AtaInv, DataInv
<1> QED BY <1>1, AtaIsInductive, PTL

\* The registers are written only when the drive is not busy and has no words
\* left to move, and the data port is used only while it asks for data.
THEOREM DriverKeepsProtocol == Spec => ProtocolKept
<1> DEFINE Kept == /\ taskfile' # taskfile => state \in {"idle", "error"}
                   /\ words' > words => state = "ready"
<1>1. AtaInv /\ [Next]_vars => [Kept]_vars
  <2> SUFFICES ASSUME AtaInv, Next PROVE Kept OBVIOUS
  <2>1. words \in Nat BY SectorBytesNat DEF AtaInv, TypeInv
  <2>2. ASSUME NEW kind \in {"read", "write"}, NEW r \in Requests, Call(kind, r[1], r[2])
        PROVE  Kept
    BY <2>1, <2>2 DEF Call, device
  <2>3. CASE NextSector
    BY <2>1, <2>3 DEF NextSector, device, AtaInv, PhaseInv, Busy
  <2>4. CASE WaitBsy \/ WaitDrq \/ EndSector
    BY <2>1, <2>4 DEF WaitBsy, WaitDrq, EndSector, device
  <2>5. CASE Transfer BY <2>5, TransferStep
  <2>6. CASE Drive BY <2>1, <2>6 DEF Drive, Seek, Flush
  <2> QED BY <2>2, <2>3, <2>4, <2>5, <2>6 DEF Next, Driver
<1> QED BY <1>1, AtaIsInductive, PTL DEF Spec, ProtocolKept
=============================================================================
