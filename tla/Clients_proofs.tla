---------------------------- MODULE Clients_proofs ----------------------------
(* Proofs about what clients rely on: the wire between the console programs   *)
(* and the server, for any fds, clients, frames and lengths, and at the end    *)
(* the image server that the programs fetch pictures from, for any menus,      *)
(* uploads, downloads and failures.  Nothing of the one is used for the other. *)
EXTENDS ConsoleClient, ImageStore, SequenceTheorems, TLAPS

----------------------------------------------------------------------------
(* Streams of units.  A frame is known by the numbers its units carry, so what *)
(* makes a sequence of units a stream of whole frames can be said of each unit *)
(* and its neighbours: nothing has to be summed up over the frames.            *)
U(c, k, p) == [conn |-> c, frame |-> k, pos |-> p]

Size(fs, k) == HeaderSize + BodySize(fs[k].len)

\* Unit i of s stands in its frame, which starts in s and is cut only where s
\* ends, and behind the frame comes the next one.
Stands(s, i, c, fs) ==
    LET k == s[i].frame
        p == s[i].pos
    IN
    /\ s[i].conn = c /\ k \in 1 .. Len(fs) /\ p \in 1 .. Size(fs, k) /\ p <= i
    /\ \A q \in 1 .. Size(fs, k) : i - p + q <= Len(s) => s[i - p + q] = U(c, k, q)
    /\ i < Len(s) /\ p = Size(fs, k) => s[i + 1] = U(c, k + 1, 1)

Placed(s, c, fs) == \A i \in 1 .. Len(s) : Stands(s, i, c, fs)

\* The last unit is the end of the last frame.
Complete(s, fs) ==
    s # <<>> => s[Len(s)].frame = Len(fs) /\ s[Len(s)].pos = Size(fs, Len(fs))

\* No unit comes twice, and those of a connection come in their order.
Before(x, y) == x.frame < y.frame \/ (x.frame = y.frame /\ x.pos < y.pos)
Sorted(s) ==
    \A i, j \in 1 .. Len(s) : i < j /\ s[i].conn = s[j].conn => Before(s[i], s[j])

LEMMA SizeIsNat ==
  ASSUME NEW fs \in Seq(Frame), NEW k \in 1 .. Len(fs)
  PROVE  /\ Size(fs, k) \in Nat \ {0} /\ HeaderSize <= Size(fs, k)
         /\ Size(fs, k) <= HeaderSize + MaxPayload
         /\ fs[k].len \in Lengths /\ fs[k].len \in Int /\ fs[k].op \in Ops
<1>1. fs[k] \in Frame
  BY ElementOfSeq
<1>2. fs[k].len \in Lengths /\ fs[k].len \in Int /\ fs[k].op \in Ops
  BY <1>1, LengthAssumption DEF Frame
<1>3. BodySize(fs[k].len) \in 0 .. MaxPayload
  BY <1>2, SizeAssumption DEF BodySize, Illegal
<1> QED
  BY <1>2, <1>3, SizeAssumption DEF Size

LEMMA UnitsOfFrame ==
  ASSUME NEW c \in Conns, NEW k \in FrameNos, NEW len \in Lengths
  PROVE  /\ Units(c, k, len) \in Seq(Unit)
         /\ Len(Units(c, k, len)) = HeaderSize + BodySize(len)
         /\ HeaderSize + BodySize(len) \in Nat \ {0}
         /\ \A i \in 1 .. HeaderSize + BodySize(len) : Units(c, k, len)[i] = U(c, k, i)
<1>1. BodySize(len) \in 0 .. MaxPayload
  BY SizeAssumption, LengthAssumption DEF BodySize, Illegal
<1>2. \A i \in 1 .. HeaderSize + BodySize(len) : U(c, k, i) \in Unit
  BY <1>1, SizeAssumption DEF U, Unit
<1>3. Units(c, k, len) = [i \in 1 .. HeaderSize + BodySize(len) |-> U(c, k, i)]
  BY DEF Units, U
<1>4. HeaderSize + BodySize(len) \in Nat \ {0}
  BY <1>1, SizeAssumption
<1>5. Units(c, k, len) \in [1 .. HeaderSize + BodySize(len) -> Unit]
  BY <1>2, <1>3
<1> QED
  BY <1>3, <1>4, <1>5, SeqDef

LEMMA RestOfSeq ==
  ASSUME NEW S, NEW s \in Seq(S), NEW n \in Nat, n <= Len(s)
  PROVE  /\ SubSeq(s, n + 1, Len(s)) \in Seq(S)
         /\ Len(SubSeq(s, n + 1, Len(s))) = Len(s) - n
         /\ Len(SubSeq(s, n + 1, Len(s))) + n = Len(s)
         /\ \A i \in 1 .. Len(SubSeq(s, n + 1, Len(s))) : SubSeq(s, n + 1, Len(s))[i] = s[i + n]
<1>1. Len(s) \in Nat
  BY LenProperties
<1>2. \A i \in n + 1 .. Len(s) : s[i] \in S
  BY <1>1, ElementOfSeq
<1>3. /\ SubSeq(s, n + 1, Len(s)) \in Seq(S)
      /\ Len(SubSeq(s, n + 1, Len(s))) = IF n + 1 <= Len(s) THEN Len(s) - (n + 1) + 1 ELSE 0
      /\ \A i \in 1 .. Len(s) - (n + 1) + 1 : SubSeq(s, n + 1, Len(s))[i] = s[(n + 1) + i - 1]
  BY <1>1, <1>2, SubSeqProperties
<1>4. Len(SubSeq(s, n + 1, Len(s))) = Len(s) - n
  BY <1>1, <1>3
<1>5. \A i \in 1 .. Len(s) - n : (n + 1) + i - 1 = i + n /\ i \in 1 .. Len(s) - (n + 1) + 1
  BY <1>1
<1> QED
  BY <1>1, <1>3, <1>4, <1>5

(* The beginning of a stream.                                                  *)
LEMMA PlacedPrefix ==
  ASSUME NEW s \in Seq(Unit), NEW t \in Seq(Unit), NEW c, NEW fs \in Seq(Frame),
         Len(t) <= Len(s), \A i \in 1 .. Len(t) : t[i] = s[i],
         Placed(s, c, fs)
  PROVE  Placed(t, c, fs)
<1> SUFFICES ASSUME NEW i \in 1 .. Len(t) PROVE Stands(t, i, c, fs)
  BY DEF Placed
<1>1. Len(s) \in Nat /\ Len(t) \in Nat
  BY LenProperties
<1>2. Stands(s, i, c, fs) /\ t[i] = s[i]
  BY <1>1 DEF Placed
<1>3. Size(fs, s[i].frame) \in Nat
  BY <1>2, SizeIsNat DEF Stands
<1> DEFINE k == s[i].frame
           p == s[i].pos
<1>4. k \in 1 .. Len(fs) /\ p \in 1 .. Size(fs, k) /\ p <= i /\ s[i].conn = c
  BY <1>2 DEF Stands
<1>5. \A q \in 1 .. Size(fs, k) : i - p + q <= Len(t) => t[i - p + q] = U(c, k, q)
  <2> SUFFICES ASSUME NEW q \in 1 .. Size(fs, k), i - p + q <= Len(t)
               PROVE  t[i - p + q] = U(c, k, q)
    OBVIOUS
  <2>1. i - p + q \in 1 .. Len(t) /\ i - p + q <= Len(s)
    BY <1>1, <1>3, <1>4
  <2>2. s[i - p + q] = U(c, k, q)
    BY <1>2, <2>1 DEF Stands
  <2> HIDE DEF k, p
  <2> QED
    BY <2>1, <2>2
<1>6. i < Len(t) /\ p = Size(fs, k) => t[i + 1] = U(c, k + 1, 1)
  <2> SUFFICES ASSUME i < Len(t), p = Size(fs, k) PROVE t[i + 1] = U(c, k + 1, 1)
    OBVIOUS
  <2>1. i + 1 \in 1 .. Len(t) /\ i < Len(s)
    BY <1>1
  <2> QED
    BY <1>2, <2>1 DEF Stands
<1> QED
  BY <1>2, <1>4, <1>5, <1>6 DEF Stands

LEMMA SortedPrefix ==
  ASSUME NEW s \in Seq(Unit), NEW t \in Seq(Unit),
         Len(t) <= Len(s), \A i \in 1 .. Len(t) : t[i] = s[i],
         Sorted(s)
  PROVE  Sorted(t)
<1>1. Len(s) \in Nat /\ Len(t) \in Nat
  BY LenProperties
<1> QED
  BY <1>1 DEF Sorted

(* What follows some first units of a stream.                                  *)
LEMMA SortedRest ==
  ASSUME NEW s \in Seq(Unit), NEW t \in Seq(Unit), NEW n \in Nat,
         Len(t) + n = Len(s), \A i \in 1 .. Len(t) : t[i] = s[i + n],
         Sorted(s)
  PROVE  Sorted(t)
<1>1. Len(s) \in Nat /\ Len(t) \in Nat
  BY LenProperties
<1> SUFFICES ASSUME NEW i \in 1 .. Len(t), NEW j \in 1 .. Len(t), i < j, t[i].conn = t[j].conn
             PROVE  Before(t[i], t[j])
  BY DEF Sorted
<1>2. i + n \in 1 .. Len(s) /\ j + n \in 1 .. Len(s) /\ i + n < j + n
  BY <1>1
<1> QED
  BY <1>2 DEF Sorted

(* What follows the first frame of a stream is one, and begins with the next.  *)
LEMMA PlacedRest ==
  ASSUME NEW s \in Seq(Unit), NEW c, NEW fs \in Seq(Frame), s # <<>>, Placed(s, c, fs),
         Size(fs, s[1].frame) <= Len(s)
  PROVE  LET n == Size(fs, s[1].frame)
             t == SubSeq(s, n + 1, Len(s))
         IN  Placed(t, c, fs) /\ (t # <<>> => t[1].frame = s[1].frame + 1)
<1>1. PICK m \in Nat \ {0} : m = Len(s)
  BY EmptySeq
<1>2. Stands(s, 1, c, fs)
  BY <1>1 DEF Placed
<1>3. PICK k1 \in 1 .. Len(fs) : k1 = s[1].frame
  BY <1>2 DEF Stands
<1>4. PICK n \in Nat \ {0} : n = Size(fs, k1)
  BY SizeIsNat
<1>5. PICK t \in Seq(Unit) : t = SubSeq(s, n + 1, m)
  BY <1>1, <1>3, <1>4, RestOfSeq
<1>6. PICK l \in Nat : l = Len(t) /\ l + n = m /\ \A i \in 1 .. l : t[i] = s[i + n]
  <2>1. n \in Nat /\ n <= Len(s)
    BY <1>3, <1>4
  <2>2. /\ Len(SubSeq(s, n + 1, Len(s))) + n = Len(s)
        /\ \A i \in 1 .. Len(SubSeq(s, n + 1, Len(s))) : SubSeq(s, n + 1, Len(s))[i] = s[i + n]
    BY <2>1, RestOfSeq
  <2>3. Len(t) \in Nat /\ Len(t) + n = m /\ \A i \in 1 .. Len(t) : t[i] = s[i + n]
    BY <2>2, <1>1, <1>5, LenProperties
  <2> QED
    BY <2>3
<1>7. \A q \in 1 .. n : s[q] = U(c, k1, q)
  <2>1. s[1].pos = 1
    BY <1>2, <1>3, <1>4 DEF Stands
  <2>2. \A q \in 1 .. n : 1 - 1 + q <= m /\ 1 - 1 + q = q
    BY <1>6
  <2> QED
    BY <1>1, <1>2, <1>3, <1>4, <2>1, <2>2 DEF Stands
<1>8. ASSUME NEW i \in 1 .. l
      PROVE  Stands(t, i, c, fs)
  <2>1. i + n \in 1 .. m
    BY <1>6
  <2>2. Stands(s, i + n, c, fs) /\ t[i] = s[i + n]
    BY <1>1, <1>6, <2>1 DEF Placed
  <2>3. PICK k \in 1 .. Len(fs) : k = t[i].frame
    BY <2>2 DEF Stands
  <2>4. PICK z \in Nat \ {0} : z = Size(fs, k)
    BY SizeIsNat
  <2>5. PICK p \in 1 .. z : p = t[i].pos /\ p <= i + n
    BY <2>2, <2>3, <2>4 DEF Stands
  <2>6. \A q \in 1 .. z : (i + n) - p + q <= m => s[(i + n) - p + q] = U(c, k, q)
    BY <1>1, <2>2, <2>3, <2>4, <2>5 DEF Stands
  <2>7. /\ p <= i
        /\ \A q \in 1 .. z : i - p + q <= l => t[i - p + q] = U(c, k, q)
    <3>1. k = k1 => z = n
      BY <1>4, <2>4
    <3>2. \A q \in 1 .. l : t[q] = s[q + n]
      BY <1>6
    <3>3. l + n = m /\ p <= i + n
      BY <1>6, <2>5
    <3>4. p <= i
      <4> SUFFICES ASSUME p > i PROVE FALSE
        OBVIOUS
      <4>1. (i + n) - p + 1 \in 1 .. n /\ (i + n) - p + 1 <= m
        BY <3>3
      <4>2. U(c, k, 1) = U(c, k1, (i + n) - p + 1)
        BY <4>1, <1>7, <2>6
      <4>3. k = k1 /\ (i + n) - p + 1 = 1
        BY <4>2 DEF U
      <4> QED
        BY <4>3, <3>1, <3>3
    <3>5. ASSUME NEW q \in 1 .. z, i - p + q <= l
          PROVE  t[i - p + q] = U(c, k, q)
      <4>1. i - p + q \in 1 .. l /\ (i + n) - p + q <= m /\ (i - p + q) + n = (i + n) - p + q
        BY <3>3, <3>4, <3>5
      <4> QED
        BY <4>1, <3>2, <2>6
    <3> QED
      BY <3>4, <3>5
  <2>8. i < l /\ p = z => t[i + 1] = U(c, k + 1, 1)
    <3> SUFFICES ASSUME i < l, p = z PROVE t[i + 1] = U(c, k + 1, 1)
      OBVIOUS
    <3>1. i + 1 \in 1 .. l /\ (i + 1) + n = (i + n) + 1 /\ i + n < m
      BY <1>6
    <3>2. s[(i + n) + 1] = U(c, k + 1, 1)
      BY <1>1, <2>2, <2>3, <2>4, <2>5, <3>1 DEF Stands
    <3> QED
      BY <1>6, <3>1, <3>2
  <2>9. t[i].conn = c
    BY <2>2 DEF Stands
  <2> QED
    BY <1>6, <2>3, <2>4, <2>5, <2>7, <2>8, <2>9 DEF Stands
<1>9. t # <<>> => t[1].frame = k1 + 1
  <2> SUFFICES ASSUME t # <<>> PROVE t[1].frame = k1 + 1
    OBVIOUS
  <2>1. l \in Nat \ {0}
    BY <1>6, EmptySeq
  <2>2. n \in 1 .. m /\ n < m /\ t[1] = s[n + 1]
    BY <1>6, <2>1
  <2>3. Stands(s, n, c, fs)
    BY <1>1, <2>2 DEF Placed
  <2>4. s[n].frame = k1 /\ s[n].pos = n
    <3>1. s[n] = U(c, k1, n)
      BY <1>7
    <3> QED
      BY <3>1 DEF U
  <2>5. s[n + 1] = U(c, k1 + 1, 1)
    BY <1>1, <1>4, <2>2, <2>3, <2>4 DEF Stands
  <2> QED
    BY <2>2, <2>5 DEF U
<1> QED
  BY <1>1, <1>3, <1>4, <1>5, <1>6, <1>8, <1>9 DEF Placed

(* Cutting and joining sequences.                                              *)
LEMMA CutSeq ==
  ASSUME NEW S, NEW s \in Seq(S), NEW n \in Nat, n <= Len(s)
  PROVE  /\ SubSeq(s, 1, n) \in Seq(S)
         /\ Len(SubSeq(s, 1, n)) = n
         /\ \A i \in 1 .. n : SubSeq(s, 1, n)[i] = s[i]
         /\ SubSeq(s, 1, n) \o SubSeq(s, n + 1, Len(s)) = s
<1>1. Len(s) \in Nat
  BY LenProperties
<1>2. \A i \in 1 .. n : s[i] \in S
  BY <1>1, ElementOfSeq
<1>3. /\ SubSeq(s, 1, n) \in Seq(S)
      /\ Len(SubSeq(s, 1, n)) = IF 1 <= n THEN n - 1 + 1 ELSE 0
      /\ \A i \in 1 .. n - 1 + 1 : SubSeq(s, 1, n)[i] = s[1 + i - 1]
  BY <1>2, SubSeqProperties
<1>4. 1 \in 1 .. Len(s) + 1 /\ n \in 1 - 1 .. Len(s) /\ Len(s) \in n .. Len(s)
  BY <1>1
<1>5. SubSeq(s, 1, n) \o SubSeq(s, n + 1, Len(s)) = SubSeq(s, 1, Len(s))
  BY <1>4, ConcatAdjacentSubSeq
<1>6. SubSeq(s, 1, Len(s)) = s
  BY SubSeqFull
<1>7. \A i \in 1 .. n : 1 + i - 1 = i /\ i \in 1 .. n - 1 + 1
  OBVIOUS
<1>8. \A i \in 1 .. n : SubSeq(s, 1, n)[i] = s[i]
  BY <1>3, <1>7
<1>9. Len(SubSeq(s, 1, n)) = n
  BY <1>3
<1> QED
  BY <1>3, <1>5, <1>6, <1>8, <1>9

LEMMA DropConcat ==
  ASSUME NEW S, NEW s \in Seq(S), NEW t \in Seq(S), NEW n \in Nat, n <= Len(s)
  PROVE  SubSeq(s, n + 1, Len(s)) \o t = SubSeq(s \o t, n + 1, Len(s \o t))
<1>1. PICK a \in Nat : a = Len(s)
  BY LenProperties
<1>2. PICK b \in Nat : b = Len(t)
  BY LenProperties
<1>3. PICK w \in Seq(S) : /\ w = s \o t /\ Len(w) = a + b
                          /\ \A i \in 1 .. a + b : w[i] = IF i <= a THEN s[i] ELSE t[i - a]
  <2>1. /\ s \o t \in Seq(S) /\ Len(s \o t) = a + b
        /\ \A i \in 1 .. a + b : (s \o t)[i] = IF i <= a THEN s[i] ELSE t[i - a]
    BY <1>1, <1>2, ConcatProperties
  <2> QED
    BY <2>1
<1>4. PICK r \in Seq(S) : /\ r = SubSeq(s, n + 1, Len(s)) /\ Len(r) = a - n
                          /\ \A i \in 1 .. a - n : r[i] = s[i + n]
  <2>1. /\ SubSeq(s, n + 1, Len(s)) \in Seq(S) /\ Len(SubSeq(s, n + 1, Len(s))) = a - n
        /\ \A i \in 1 .. a - n : SubSeq(s, n + 1, Len(s))[i] = s[i + n]
    BY <1>1, RestOfSeq
  <2> QED
    BY <2>1
<1>5. PICK v \in Seq(S) : /\ v = SubSeq(w, n + 1, Len(w)) /\ Len(v) = a + b - n
                          /\ \A i \in 1 .. a + b - n : v[i] = w[i + n]
  <2>1. n <= Len(w) /\ Len(w) - n = a + b - n
    BY <1>1, <1>2, <1>3
  <2>2. /\ SubSeq(w, n + 1, Len(w)) \in Seq(S)
        /\ Len(SubSeq(w, n + 1, Len(w))) = Len(w) - n
        /\ \A i \in 1 .. Len(SubSeq(w, n + 1, Len(w))) : SubSeq(w, n + 1, Len(w))[i] = w[i + n]
    BY <2>1, RestOfSeq
  <2> QED
    BY <2>1, <2>2
<1>6. PICK x \in Seq(S) : /\ x = r \o t /\ Len(x) = a + b - n
                          /\ \A i \in 1 .. a + b - n : x[i] = IF i <= a - n THEN r[i] ELSE t[i - (a - n)]
  <2>1. Len(r) + Len(t) = a + b - n
    <3>1. (a - n) + b = a + b - n
      OBVIOUS
    <3> QED
      BY <1>2, <1>4, <3>1
  <2>2. /\ r \o t \in Seq(S) /\ Len(r \o t) = Len(r) + Len(t)
        /\ \A i \in 1 .. Len(r) + Len(t) : (r \o t)[i] = IF i <= Len(r) THEN r[i] ELSE t[i - Len(r)]
    BY ConcatProperties
  <2>3. Len(r) = a - n
    BY <1>4
  <2> QED
    BY <2>1, <2>2, <2>3
<1>7. ASSUME NEW i \in 1 .. a + b - n PROVE x[i] = v[i]
  <2>1. i + n \in 1 .. a + b /\ (i <= a - n <=> i + n <= a) /\ i - (a - n) = (i + n) - a
    BY <1>1, <1>2
  <2>2. v[i] = IF i + n <= a THEN s[i + n] ELSE t[(i + n) - a]
    BY <1>3, <1>5, <2>1
  <2>3. i <= a - n => i \in 1 .. a - n
    BY <1>1, <1>2
  <2>4. x[i] = IF i + n <= a THEN s[i + n] ELSE t[(i + n) - a]
    BY <1>4, <1>6, <2>1, <2>3
  <2> QED
    BY <2>2, <2>4
<1>8. x = v
  BY <1>5, <1>6, <1>7, SeqEqual
<1> QED
  BY <1>3, <1>4, <1>5, <1>6, <1>8


(* The next frame is put behind a stream that ends with the end of the last.   *)
LEMMA PlacedAppend ==
  ASSUME NEW s \in Seq(Unit), NEW c \in Conns, NEW fs \in Seq(Frame), NEW fr \in Frame,
         Len(fs) + 1 \in FrameNos, Placed(s, c, fs), Complete(s, fs)
  PROVE  /\ Placed(s \o Units(c, Len(fs) + 1, fr.len), c, Append(fs, fr))
         /\ Complete(s \o Units(c, Len(fs) + 1, fr.len), Append(fs, fr))
<1> DEFINE new == Append(fs, fr)
<1>1. PICK m \in Nat : m = Len(s)
  BY LenProperties
<1>2. PICK g \in Nat : g = Len(fs)
  BY LenProperties
<1>3. /\ new \in Seq(Frame) /\ Len(new) = g + 1
      /\ \A k \in 1 .. g : new[k] = fs[k]
      /\ new[g + 1] = fr
  BY <1>2, AppendProperties
<1>4. \A k \in 1 .. g : Size(new, k) = Size(fs, k)
  BY <1>3 DEF Size
<1>5. fr.len \in Lengths
  BY DEF Frame
<1>6. PICK n \in Nat \ {0} : n = Size(new, g + 1) /\ n = HeaderSize + BodySize(fr.len)
  BY <1>2, <1>3, <1>5, UnitsOfFrame DEF Size
<1>7. PICK u \in Seq(Unit) : /\ u = Units(c, Len(fs) + 1, fr.len) /\ Len(u) = n
                             /\ \A i \in 1 .. n : u[i] = U(c, g + 1, i)
  BY <1>2, <1>5, <1>6, UnitsOfFrame
<1>8. PICK t \in Seq(Unit) : /\ t = s \o u /\ Len(t) = m + n
                             /\ \A i \in 1 .. m : t[i] = s[i]
                             /\ \A i \in 1 .. n : t[m + i] = U(c, g + 1, i)
  <2>1. /\ s \o u \in Seq(Unit) /\ Len(s \o u) = m + n
        /\ \A i \in 1 .. m + n : (s \o u)[i] = IF i <= m THEN s[i] ELSE u[i - m]
    <3>1. /\ s \o u \in Seq(Unit) /\ Len(s \o u) = Len(s) + Len(u)
          /\ \A i \in 1 .. Len(s) + Len(u) :
                (s \o u)[i] = IF i <= Len(s) THEN s[i] ELSE u[i - Len(s)]
      BY ConcatProperties
    <3>2. Len(s) = m /\ Len(u) = n
      BY <1>1, <1>7
    <3> QED
      BY <3>1, <3>2
  <2>2. \A i \in 1 .. n : m + i \in 1 .. m + n /\ ~(m + i <= m) /\ (m + i) - m = i
    OBVIOUS
  <2>3. \A i \in 1 .. n : (s \o u)[m + i] = U(c, g + 1, i)
    BY <1>7, <2>1, <2>2
  <2>4. \A i \in 1 .. m : (s \o u)[i] = s[i]
    BY <2>1
  <2> QED
    BY <2>1, <2>3, <2>4
<1>9. ASSUME NEW i \in 1 .. m PROVE Stands(t, i, c, new)
  <2>1. Stands(s, i, c, fs) /\ t[i] = s[i]
    BY <1>1, <1>8, <1>9 DEF Placed
  <2>2. PICK k \in 1 .. g : k = s[i].frame
    BY <1>2, <2>1 DEF Stands
  <2>3. PICK z \in Nat \ {0} : z = Size(fs, k) /\ z = Size(new, k)
    BY <1>2, <1>4, SizeIsNat
  <2>4. PICK p \in 1 .. z : p = s[i].pos /\ p <= i
    BY <2>1, <2>2, <2>3 DEF Stands
  <2>5. \A q \in 1 .. z : i - p + q <= m => s[i - p + q] = U(c, k, q)
    BY <1>1, <2>1, <2>2, <2>3, <2>4 DEF Stands
  <2>6. s # <<>>
    BY <1>1, <1>9, EmptySeq
  <2>7. s[m].frame = g /\ s[m].pos = Size(fs, g)
    BY <1>1, <1>2, <2>6 DEF Complete
  <2>8. i - p + z <= m
    <3> SUFFICES ASSUME i - p + z > m PROVE FALSE
      OBVIOUS
    <3>1. m - i + p \in 1 .. z /\ i - p + (m - i + p) = m /\ m - i + p < z
      OBVIOUS
    <3>2. s[m] = U(c, k, m - i + p)
      BY <2>5, <3>1
    <3>3. k = g /\ m - i + p = Size(fs, g)
      BY <2>7, <3>2 DEF U
    <3>4. m - i + p = z
      BY <2>3, <3>3
    <3> QED
      BY <3>1, <3>4
  <2>9. ASSUME NEW q \in 1 .. z PROVE t[i - p + q] = U(c, k, q)
    <3>1. p <= i
      BY <2>4
    <3>2. i - p + q \in 1 .. m
      BY <2>8, <3>1
    <3>3. s[i - p + q] = U(c, k, q)
      BY <2>5, <3>2
    <3>4. t[i - p + q] = s[i - p + q]
      BY <1>8, <3>2
    <3> QED
      BY <3>3, <3>4
  <2>10. ASSUME i < m + n, p = z PROVE t[i + 1] = U(c, k + 1, 1)
    <3>1. CASE i < m
      <4>1. i + 1 \in 1 .. m
        BY <3>1
      <4>2. s[i + 1] = U(c, k + 1, 1)
        BY <1>1, <2>1, <2>2, <2>3, <2>4, <2>10, <3>1 DEF Stands
      <4> QED
        BY <1>8, <4>1, <4>2
    <3>2. CASE i = m
      <4>1. k = g
        BY <2>2, <2>7, <3>2
      <4>2. t[m + 1] = U(c, g + 1, 1)
        BY <1>8
      <4> QED
        BY <3>2, <4>1, <4>2
    <3> QED
      BY <3>1, <3>2
  <2>11. k \in 1 .. Len(new) /\ t[i].conn = c
    BY <1>3, <2>1 DEF Stands
  <2> HIDE DEF new
  <2> QED
    BY <1>8, <2>1, <2>2, <2>3, <2>4, <2>9, <2>10, <2>11 DEF Stands
<1>10. ASSUME NEW r \in 1 .. n PROVE Stands(t, m + r, c, new)
  <2>1. t[m + r] = U(c, g + 1, r)
    BY <1>8
  <2>2. t[m + r].conn = c /\ t[m + r].frame = g + 1 /\ t[m + r].pos = r
    BY <2>1 DEF U
  <2>3. \A q \in 1 .. n : t[(m + r) - r + q] = U(c, g + 1, q)
    <3> SUFFICES ASSUME NEW q \in 1 .. n PROVE t[(m + r) - r + q] = U(c, g + 1, q)
      OBVIOUS
    <3>1. (m + r) - r + q = m + q
      OBVIOUS
    <3> QED
      BY <1>8, <3>1
  <2>4. ~(m + r < m + n /\ r = n) /\ r <= m + r
    OBVIOUS
  <2>5. g + 1 \in 1 .. Len(new)
    BY <1>3
  <2> HIDE DEF new
  <2> QED
    BY <1>6, <1>8, <2>2, <2>3, <2>4, <2>5 DEF Stands
<1>11. Placed(t, c, new)
  <2> SUFFICES ASSUME NEW i \in 1 .. m + n PROVE Stands(t, i, c, new)
    BY <1>8 DEF Placed
  <2>1. CASE i <= m
    <3>1. i \in 1 .. m
      BY <2>1
    <3> QED
      BY <1>9, <3>1
  <2>2. CASE i > m
    <3>1. i - m \in 1 .. n /\ m + (i - m) = i
      BY <2>2
    <3>2. Stands(t, m + (i - m), c, new)
      BY <1>10, <3>1
    <3> QED
      BY <3>1, <3>2
  <2> QED
    BY <2>1, <2>2
<1>12. Complete(t, new)
  <2>1. t[m + n] = U(c, g + 1, n)
    <3>1. n \in 1 .. n
      OBVIOUS
    <3> QED
      BY <1>8, <3>1
  <2>2. t[m + n].frame = g + 1 /\ t[m + n].pos = n
    BY <2>1 DEF U
  <2> HIDE DEF new
  <2> QED
    BY <1>3, <1>6, <1>8, <2>2 DEF Complete
<1> QED
  BY <1>7, <1>8, <1>11, <1>12

LEMMA SortedAppend ==
  ASSUME NEW s \in Seq(Unit), NEW c \in Conns, NEW k \in FrameNos, NEW len \in Lengths,
         Sorted(s), \A i \in 1 .. Len(s) : s[i].conn = c => s[i].frame < k
  PROVE  Sorted(s \o Units(c, k, len))
<1>1. PICK m \in Nat : m = Len(s)
  BY LenProperties
<1>2. PICK n \in Nat : n = Len(Units(c, k, len))
  BY UnitsOfFrame
<1>3. /\ Units(c, k, len) \in Seq(Unit)
      /\ \A i \in 1 .. n : Units(c, k, len)[i] = U(c, k, i)
  BY <1>2, UnitsOfFrame
<1>4. PICK t : /\ t = s \o Units(c, k, len) /\ Len(t) = m + n
               /\ \A i \in 1 .. m + n : t[i] = IF i <= m THEN s[i] ELSE Units(c, k, len)[i - m]
  <2>1. /\ Len(s \o Units(c, k, len)) = m + n
        /\ \A i \in 1 .. m + n : (s \o Units(c, k, len))[i] = IF i <= m THEN s[i] ELSE Units(c, k, len)[i - m]
    BY <1>1, <1>2, <1>3, ConcatProperties
  <2> QED
    BY <2>1
<1>5. \A i \in 1 .. m + n : i <= m => t[i] = s[i] /\ i \in 1 .. m
  BY <1>4
<1>6. ASSUME NEW i \in 1 .. m + n, ~(i <= m)
      PROVE  t[i].conn = c /\ t[i].frame = k /\ t[i].pos = i - m
  <2>1. i - m \in 1 .. n
    BY <1>6
  <2>2. t[i] = U(c, k, i - m)
    BY <1>3, <1>4, <1>6, <2>1
  <2> QED
    BY <2>2 DEF U
<1> SUFFICES ASSUME NEW i \in 1 .. m + n, NEW j \in 1 .. m + n, i < j, t[i].conn = t[j].conn
             PROVE  Before(t[i], t[j])
  BY <1>4 DEF Sorted
<1>7. CASE j <= m
  <2>1. i <= m /\ t[i] = s[i] /\ t[j] = s[j] /\ i \in 1 .. m /\ j \in 1 .. m
    BY <1>5, <1>7
  <2> QED
    BY <1>1, <2>1 DEF Sorted
<1>8. CASE i <= m /\ ~(j <= m)
  <2>1. t[i] = s[i] /\ i \in 1 .. m /\ t[j].conn = c /\ t[j].frame = k
    BY <1>5, <1>6, <1>8
  <2> QED
    BY <1>1, <2>1 DEF Before
<1>9. CASE ~(i <= m)
  <2>1. t[i].frame = k /\ t[j].frame = k /\ t[i].pos = i - m /\ t[j].pos = j - m
    BY <1>6, <1>9
  <2> QED
    BY <2>1 DEF Before
<1> QED
  BY <1>7, <1>8, <1>9

----------------------------------------------------------------------------
(* What a step of the programs, the server or TCP does to the wire.            *)
TakeItem ==
    /\ queue # <<>> /\ queue' = Tail(queue)
    /\ UNCHANGED <<clientVars, kernelVars, mainVars, history>>

FramingStep ==
    \/ \E c \in Conns : (\E frame \in Frame : Send(c, frame)) \/ Arrive(c) \/ HungUp(c)
    \/ \E f \in Fds : Accept(f) \/ Kick(f)
    \/ Main
    \/ TakeItem
    \/ UNCHANGED framingVars

\* Units of frames that were sent on a connection that was accepted.
SentUnits == {u \in Unit : u.conn <= accepted /\ u.frame <= Len(sent[u.conn])}
UnitsOf(c) == {u \in SentUnits : u.conn = c}

\* Every unit is one of a frame that was sent, and TCP keeps connections apart.
Carried ==
    /\ \A f \in Fds : buf[f] \in Seq(SentUnits)
    /\ \A c \in Conns : unread[c] \in Seq(UnitsOf(c)) /\ flight[c] \in Seq(UnitsOf(c))

\* A connection has one fd number at most; while the epoll thread cuts frames
\* for one, its fd number stands for it or, after a ban, for nobody.
Own ==
    /\ \A f, g \in Fds : sock[f] # NONE /\ sock[f] = sock[g] => f = g
    /\ \A f \in Fds : sock[f] <= accepted
    /\ parsing # Idle =>
          /\ parsing.conn <= accepted
          /\ sock[parsing.fd] \in {NONE, parsing.conn}
          /\ \A f \in Fds : sock[f] = parsing.conn => f = parsing.fd

Fresh ==
    \A c \in Conns : c > accepted =>
       sent[c] = <<>> /\ flight[c] = <<>> /\ unread[c] = <<>> /\ delivered[c] = <<>>

Shape == FramingTypeOK /\ Carried /\ Own /\ Fresh

LEMMA InitShape == FramingInit => Shape
<1> SUFFICES ASSUME FramingInit PROVE Shape
  OBVIOUS
<1>1. \A S : <<>> \in Seq(S)
  BY EmptySeq
<1>2. FramingTypeOK
  BY <1>1, BoundsAssumption DEF FramingInit, FramingTypeOK, NONE, Conns
<1>3. Carried /\ Own /\ Fresh
  BY <1>1, BoundsAssumption DEF FramingInit, Carried, Own, Fresh, Idle, NONE, Conns
<1> QED
  BY <1>2, <1>3 DEF Shape

(* What was sent stays sent. *)
LEMMA SentUnitsGrow ==
  ASSUME FramingTypeOK, accepted' \in Nat, accepted <= accepted',
         \A c \in Conns : Len(sent'[c]) \in Nat /\ Len(sent[c]) <= Len(sent'[c])
  PROVE  SentUnits \subseteq SentUnits' /\ \A c \in Conns : UnitsOf(c) \subseteq UnitsOf(c)'
<1>1. accepted \in Nat /\ \A c \in Conns : Len(sent[c]) \in Nat /\ c \in Nat
  BY LenProperties, BoundsAssumption DEF FramingTypeOK, Conns
<1>2. ASSUME NEW u \in SentUnits PROVE u \in SentUnits'
  <2>1. u \in Unit /\ u.conn \in Conns /\ u.frame \in Nat
    BY DEF SentUnits, Unit, FrameNos
  <2>2. u.conn <= accepted' /\ u.frame <= Len(sent'[u.conn])
    BY <1>1, <2>1 DEF SentUnits
  <2> QED
    BY <2>1, <2>2 DEF SentUnits
<1> QED
  BY <1>2 DEF UnitsOf

LEMMA SameSentUnits ==
  ASSUME sent' = sent, accepted' = accepted
  PROVE  SentUnits' = SentUnits /\ \A c \in Conns : UnitsOf(c)' = UnitsOf(c)
BY DEF SentUnits, UnitsOf

LEMMA UnitsAreUnits == SentUnits \subseteq Unit /\ \A c \in Conns : UnitsOf(c) \subseteq SentUnits
BY DEF SentUnits, UnitsOf

(* The types of the units follow from where they came from. *)
LEMMA CarriedTypes ==
  ASSUME Carried
  PROVE  /\ \A f \in Fds : buf[f] \in Seq(Unit)
         /\ \A c \in Conns : unread[c] \in Seq(Unit) /\ flight[c] \in Seq(Unit)
BY UnitsAreUnits, SeqMonotonic DEF Carried

LEMMA ShapeSend ==
  ASSUME Shape, NEW c \in Conns, NEW frame \in Frame, Send(c, frame)
  PROVE  Shape'
<1> DEFINE k == Len(sent[c]) + 1
<1>1. FramingTypeOK /\ Carried /\ Own /\ Fresh
  BY DEF Shape
<1>2. sent[c] \in Seq(Frame) /\ Len(sent[c]) \in Nat /\ k \in FrameNos
  BY <1>1, LenProperties, BoundsAssumption DEF FramingTypeOK, FrameNos, Send
<1>3. /\ sent' = [sent EXCEPT ![c] = Append(sent[c], frame)]
      /\ flight' = [flight EXCEPT ![c] = flight[c] \o Units(c, k, frame.len)]
      /\ UNCHANGED <<fin, kernelVars, mainVars, queue, history>>
      /\ c <= accepted
  BY DEF Send
<1>4. Append(sent[c], frame) \in Seq(Frame) /\ Len(Append(sent[c], frame)) = k
  BY <1>2, AppendProperties
<1>5. sent' \in [Conns -> Seq(Frame)] /\ sent'[c] = Append(sent[c], frame)
      /\ \A d \in Conns : d # c => sent'[d] = sent[d]
  BY <1>1, <1>3, <1>4 DEF FramingTypeOK
<1>6. SentUnits \subseteq SentUnits' /\ \A d \in Conns : UnitsOf(d) \subseteq UnitsOf(d)'
  <2>1. \A d \in Conns : Len(sent[d]) \in Nat
    BY <1>1, LenProperties DEF FramingTypeOK
  <2>2. \A d \in Conns : Len(sent'[d]) \in Nat /\ Len(sent[d]) <= Len(sent'[d])
    BY <1>2, <1>4, <1>5, <2>1
  <2>3. accepted' = accepted /\ accepted \in Nat
    BY <1>1, <1>3, BoundsAssumption DEF kernelVars, FramingTypeOK
  <2> QED
    BY <1>1, <2>2, <2>3, SentUnitsGrow
<1>7. Units(c, k, frame.len) \in Seq(UnitsOf(c)')
  <2>1. frame.len \in Lengths
    BY DEF Frame
  <2>2. /\ Units(c, k, frame.len) \in Seq(Unit)
        /\ \A i \in 1 .. Len(Units(c, k, frame.len)) : Units(c, k, frame.len)[i] = U(c, k, i)
    BY <1>2, <2>1, UnitsOfFrame
  <2>3. ASSUME NEW i \in 1 .. Len(Units(c, k, frame.len))
        PROVE  Units(c, k, frame.len)[i] \in UnitsOf(c)'
    <3>1. Units(c, k, frame.len)[i] \in Unit
      BY <2>2, ElementOfSeq
    <3>2. U(c, k, i) \in Unit /\ U(c, k, i).conn = c /\ U(c, k, i).frame = k
      BY <2>2, <3>1 DEF U
    <3>3. c <= accepted' /\ k <= Len(sent'[c])
      BY <1>2, <1>3, <1>4, <1>5 DEF kernelVars
    <3> HIDE DEF k
    <3>4. U(c, k, i) \in UnitsOf(c)'
      BY <3>2, <3>3 DEF UnitsOf, SentUnits
    <3> QED
      BY <2>2, <3>4
  <2>4. Len(Units(c, k, frame.len)) \in Nat
        /\ Units(c, k, frame.len) \in [1 .. Len(Units(c, k, frame.len)) -> Unit]
    BY <2>2, LenProperties
  <2>5. Units(c, k, frame.len) \in [1 .. Len(Units(c, k, frame.len)) -> UnitsOf(c)']
    <3> HIDE DEF k
    <3> QED
      BY <2>3, <2>4
  <2> QED
    BY <2>4, <2>5, SeqDef
<1>8. Carried'
  <2>1. flight[c] \in Seq(UnitsOf(c)')
    BY <1>1, <1>6, SeqMonotonic DEF Carried
  <2>2. flight[c] \o Units(c, k, frame.len) \in Seq(UnitsOf(c)')
    BY <1>7, <2>1, ConcatProperties
  <2>3. \A d \in Conns : flight'[d] \in Seq(UnitsOf(d)')
    BY <1>1, <1>3, <1>6, <2>2, SeqMonotonic DEF Carried, FramingTypeOK
  <2>4. /\ \A f \in Fds : buf'[f] \in Seq(SentUnits')
        /\ \A d \in Conns : unread'[d] \in Seq(UnitsOf(d)')
    BY <1>1, <1>3, <1>6, SeqMonotonic DEF Carried, mainVars, kernelVars
  <2> QED
    BY <2>3, <2>4 DEF Carried
<1>9. FramingTypeOK'
  <2>1. flight' \in [Conns -> Seq(Unit)]
    <3>1. \A d \in Conns : flight'[d] \in Seq(Unit)
      <4>1. \A d \in Conns : UnitsOf(d)' \subseteq Unit
        BY DEF UnitsOf, SentUnits
      <4> QED
        BY <1>8, <4>1, SeqMonotonic DEF Carried
    <3>2. flight \in [Conns -> Seq(Unit)]
      BY <1>1 DEF FramingTypeOK
    <3>3. DOMAIN flight' = Conns /\ flight' = [d \in Conns |-> flight'[d]]
      BY <1>3, <3>2
    <3> QED
      BY <3>1, <3>3
  <2> QED
    BY <1>1, <1>3, <1>5, <2>1 DEF FramingTypeOK, kernelVars, mainVars, history, Idle
<1>10. Own' /\ Fresh'
  BY <1>1, <1>3, <1>5, BoundsAssumption
     DEF Own, Fresh, FramingTypeOK, kernelVars, mainVars, history, Conns, Idle
<1> QED
  BY <1>8, <1>9, <1>10 DEF Shape

LEMMA ShapeArrive ==
  ASSUME Shape, NEW c \in Conns, Arrive(c)
  PROVE  Shape'
<1>1. FramingTypeOK /\ Carried /\ Own /\ Fresh
  BY DEF Shape
<1>2. PICK n \in 1 .. Len(flight[c]) :
         /\ unread' = [unread EXCEPT ![c] = unread[c] \o SubSeq(flight[c], 1, n)]
         /\ flight' = [flight EXCEPT ![c] = SubSeq(flight[c], n + 1, Len(flight[c]))]
  BY DEF Arrive
<1>3. /\ Open(c) /\ edge' = edge \cup {c}
      /\ flooded' \in {flooded, flooded \cup {c}}
      /\ UNCHANGED <<sent, fin, sock, accepted, mainVars, queue, delivered, kicked, inherits, ended>>
  BY DEF Arrive
<1>4. SentUnits' = SentUnits /\ \A d \in Conns : UnitsOf(d)' = UnitsOf(d)
  BY <1>3, SameSentUnits
<1>5. flight[c] \in Seq(UnitsOf(c)) /\ unread[c] \in Seq(UnitsOf(c))
  BY <1>1 DEF Carried
<1>6. n \in Nat /\ n <= Len(flight[c])
  BY <1>5, LenProperties
<1>7. /\ SubSeq(flight[c], 1, n) \in Seq(UnitsOf(c))
      /\ SubSeq(flight[c], n + 1, Len(flight[c])) \in Seq(UnitsOf(c))
  BY <1>5, <1>6, CutSeq, RestOfSeq
<1>8. unread[c] \o SubSeq(flight[c], 1, n) \in Seq(UnitsOf(c))
  BY <1>5, <1>7, ConcatProperties
<1>9. Carried'
  BY <1>1, <1>2, <1>3, <1>4, <1>7, <1>8 DEF Carried, FramingTypeOK, mainVars
<1>10. FramingTypeOK'
  <2>1. \A s \in Seq(UnitsOf(c)) : s \in Seq(Unit)
    BY UnitsAreUnits, SeqMonotonic
  <2> QED
    BY <1>1, <1>2, <1>3, <1>7, <1>8, <2>1 DEF FramingTypeOK, mainVars, Idle
<1>11. Own'
  BY <1>1, <1>3 DEF Own, mainVars, Idle
<1>12. Fresh'
  <2>1. c <= accepted
    BY <1>1, <1>3 DEF Own, Open
  <2>2. \A d \in Conns : d # c => unread'[d] = unread[d] /\ flight'[d] = flight[d]
    BY <1>1, <1>2 DEF FramingTypeOK
  <2>3. \A d \in Conns : d > accepted => d # c
    BY <1>1, <2>1, BoundsAssumption DEF FramingTypeOK, Conns
  <2> QED
    BY <1>1, <1>3, <2>2, <2>3 DEF Fresh
<1> QED
  BY <1>9, <1>10, <1>11, <1>12 DEF Shape

LEMMA ShapeHungUp ==
  ASSUME Shape, NEW c \in Conns, HungUp(c)
  PROVE  Shape'
<1>1. FramingTypeOK /\ Carried /\ Own /\ Fresh
  BY DEF Shape
<1>2. /\ fin' = fin \cup {c} /\ flight' = [flight EXCEPT ![c] = <<>>]
      /\ edge' \in {edge, edge \cup {c}}
      /\ UNCHANGED <<sent, sock, unread, accepted, mainVars, queue, history>>
  BY DEF HungUp
<1>3. SentUnits' = SentUnits /\ \A d \in Conns : UnitsOf(d)' = UnitsOf(d)
  BY <1>2, SameSentUnits
<1>4. \A S : <<>> \in Seq(S)
  BY EmptySeq
<1>5. Carried'
  BY <1>1, <1>2, <1>3, <1>4 DEF Carried, FramingTypeOK, mainVars
<1>6. FramingTypeOK'
  BY <1>1, <1>2, <1>4 DEF FramingTypeOK, mainVars, history, Idle
<1>7. Own' /\ Fresh'
  BY <1>1, <1>2 DEF Own, Fresh, mainVars, history, Idle, FramingTypeOK
<1> QED
  BY <1>5, <1>6, <1>7 DEF Shape

LEMMA ShapeAccept ==
  ASSUME Shape, NEW f \in Fds, Accept(f)
  PROVE  Shape'
<1>1. FramingTypeOK /\ Carried /\ Own /\ Fresh
  BY DEF Shape
<1>2. /\ parsing = Idle /\ sock[f] = NONE /\ accepted < MaxConns /\ accepted' = accepted + 1
      /\ sock' = [sock EXCEPT ![f] = accepted + 1] /\ known' = known \cup {f}
      /\ inherits' \in {inherits, inherits \cup {accepted + 1}}
      /\ UNCHANGED <<clientVars, unread, edge, buf, ready, parsing, queue, delivered, kicked, flooded, ended>>
  BY DEF Accept
<1>3. accepted + 1 \in Conns /\ accepted \in Nat
  BY <1>1, <1>2, BoundsAssumption DEF FramingTypeOK, Conns
<1>4. SentUnits \subseteq SentUnits' /\ \A d \in Conns : UnitsOf(d) \subseteq UnitsOf(d)'
  <2>1. \A d \in Conns : Len(sent[d]) \in Nat /\ sent' = sent
    BY <1>1, <1>2, LenProperties DEF FramingTypeOK, clientVars
  <2> QED
    BY <1>1, <1>2, <1>3, <2>1, SentUnitsGrow
<1>5. Carried'
  BY <1>1, <1>2, <1>4, SeqMonotonic DEF Carried, clientVars
<1>6. FramingTypeOK'
  BY <1>1, <1>2, <1>3, BoundsAssumption DEF FramingTypeOK, clientVars, Idle
<1>7. Own'
  <2>1. sock' \in [Fds -> Conns \cup {NONE}] /\ sock'[f] = accepted + 1
        /\ \A g \in Fds : g # f => sock'[g] = sock[g]
    BY <1>1, <1>2, <1>3 DEF FramingTypeOK
  <2>2. \A g \in Fds : sock[g] <= accepted /\ sock[g] \in Nat
    BY <1>1, BoundsAssumption DEF Own, FramingTypeOK, Conns, NONE
  <2>3. parsing' = Idle
    BY <1>2
  <2>4. \A g \in Fds : sock'[g] <= accepted'
    BY <1>2, <1>3, <2>1, <2>2
  <2>5. \A g \in Fds : g # f => sock[g] # accepted + 1
    BY <1>3, <2>2
  <2>6. \A g, h \in Fds : sock'[g] # NONE /\ sock'[g] = sock'[h] => g = h
    BY <1>1, <2>1, <2>5 DEF Own
  <2> QED
    BY <2>3, <2>4, <2>6 DEF Own, Idle
<1>8. Fresh'
  BY <1>1, <1>2, <1>3, BoundsAssumption DEF Fresh, clientVars, Conns
<1> QED
  BY <1>5, <1>6, <1>7, <1>8 DEF Shape

LEMMA OwnShrinks ==
  ASSUME Own, accepted' = accepted, parsing' \in {parsing, Idle}, NEW f \in Fds,
         sock'[f] = NONE, \A g \in Fds : g # f => sock'[g] = sock[g],
         FramingTypeOK
  PROVE  Own'
<1>1. \A g, h \in Fds : sock'[g] # NONE /\ sock'[g] = sock'[h] => g = h
  BY DEF Own
<1>2. \A g \in Fds : sock'[g] <= accepted'
  <2>1. NONE <= accepted
    BY BoundsAssumption DEF NONE, FramingTypeOK
  <2> QED
    BY <2>1 DEF Own
<1>3. ASSUME parsing' # Idle
      PROVE  /\ parsing'.conn <= accepted'
             /\ sock'[parsing'.fd] \in {NONE, parsing'.conn}
             /\ \A g \in Fds : sock'[g] = parsing'.conn => g = parsing'.fd
  <2>1. parsing' = parsing /\ parsing \in [fd : Fds, conn : Conns]
    BY <1>3 DEF FramingTypeOK, Idle
  <2>2. parsing.conn # NONE
    BY <2>1, BoundsAssumption DEF Conns, NONE
  <2> QED
    BY <1>3, <2>1, <2>2 DEF Own, Idle
<1> QED
  BY <1>1, <1>2, <1>3 DEF Own, Idle

LEMMA ForgetKeeps ==
  ASSUME Shape, NEW f \in Fds, Forget(f), sent' = sent, accepted' = accepted
  PROVE  /\ sock' \in [Fds -> Conns \cup {NONE}] /\ edge' \subseteq Conns
         /\ unread' \in [Conns -> Seq(Unit)] /\ flight' \in [Conns -> Seq(Unit)]
         /\ \A c \in Conns : unread'[c] \in Seq(UnitsOf(c)') /\ flight'[c] \in Seq(UnitsOf(c)')
         /\ sock'[f] = NONE /\ \A g \in Fds : g # f => sock'[g] = sock[g]
         /\ \A c \in Conns : unread'[c] \in {unread[c], <<>>} /\ flight'[c] \in {flight[c], <<>>}
<1>1. FramingTypeOK /\ Carried
  BY DEF Shape
<1>2. SentUnits' = SentUnits /\ \A d \in Conns : UnitsOf(d)' = UnitsOf(d)
  BY SameSentUnits
<1>3. \A S : <<>> \in Seq(S)
  BY EmptySeq
<1> QED
  BY <1>1, <1>2, <1>3 DEF Forget, FramingTypeOK, Carried

LEMMA ShapeKick ==
  ASSUME Shape, NEW f \in Fds, Kick(f)
  PROVE  Shape'
<1>1. FramingTypeOK /\ Carried /\ Own /\ Fresh
  BY DEF Shape
<1>2. /\ Forget(f)
      /\ kicked' = kicked \cup ({sock[f]} \ {NONE})
      /\ UNCHANGED <<sent, fin, accepted, mainVars, queue, delivered, inherits, flooded, ended>>
  BY DEF Kick
<1>3. /\ sock' \in [Fds -> Conns \cup {NONE}] /\ edge' \subseteq Conns
      /\ unread' \in [Conns -> Seq(Unit)] /\ flight' \in [Conns -> Seq(Unit)]
      /\ \A c \in Conns : unread'[c] \in Seq(UnitsOf(c)') /\ flight'[c] \in Seq(UnitsOf(c)')
      /\ sock'[f] = NONE /\ \A g \in Fds : g # f => sock'[g] = sock[g]
      /\ \A c \in Conns : unread'[c] \in {unread[c], <<>>} /\ flight'[c] \in {flight[c], <<>>}
  BY <1>2, ForgetKeeps
<1>4. SentUnits' = SentUnits
  BY <1>2, SameSentUnits
<1>5. Carried'
  BY <1>1, <1>2, <1>3, <1>4 DEF Carried, mainVars
<1>6. FramingTypeOK'
  BY <1>1, <1>2, <1>3 DEF FramingTypeOK, mainVars, Idle
<1>7. Own'
  BY <1>1, <1>2, <1>3, OwnShrinks DEF mainVars
<1>8. Fresh'
  BY <1>1, <1>2, <1>3 DEF Fresh
<1> QED
  BY <1>5, <1>6, <1>7, <1>8 DEF Shape

LEMMA ShapeDisconnect ==
  ASSUME Shape, NEW f \in Fds, Disconnect(f), ready' \subseteq Fds
  PROVE  Shape'
<1>1. FramingTypeOK /\ Carried /\ Own /\ Fresh
  BY DEF Shape
<1>2. /\ Forget(f) /\ known' = known \ {f} /\ buf' = [buf EXCEPT ![f] = <<>>]
      /\ parsing' = Idle /\ ended' = ended \cup ({sock[f]} \ {NONE})
      /\ UNCHANGED <<sent, fin, accepted, queue, delivered, kicked, inherits, flooded>>
  BY DEF Disconnect
<1>3. /\ sock' \in [Fds -> Conns \cup {NONE}] /\ edge' \subseteq Conns
      /\ unread' \in [Conns -> Seq(Unit)] /\ flight' \in [Conns -> Seq(Unit)]
      /\ \A c \in Conns : unread'[c] \in Seq(UnitsOf(c)') /\ flight'[c] \in Seq(UnitsOf(c)')
      /\ sock'[f] = NONE /\ \A g \in Fds : g # f => sock'[g] = sock[g]
      /\ \A c \in Conns : unread'[c] \in {unread[c], <<>>} /\ flight'[c] \in {flight[c], <<>>}
  BY <1>2, ForgetKeeps
<1>4. SentUnits' = SentUnits /\ \A S : <<>> \in Seq(S)
  BY <1>2, SameSentUnits, EmptySeq
<1>5. Carried'
  BY <1>1, <1>2, <1>3, <1>4 DEF Carried, FramingTypeOK
<1>6. FramingTypeOK'
  <2>1. /\ buf' \in [Fds -> Seq(Unit)] /\ buf'[f] = <<>>
        /\ \A g \in Fds : g # f => buf'[g] = buf[g]
    BY <1>1, <1>2, <1>4 DEF FramingTypeOK
  <2>2. \A g \in Fds : g \notin known' => buf'[g] = <<>> /\ sock'[g] = NONE
    BY <1>1, <1>2, <1>3, <2>1 DEF FramingTypeOK
  <2>3. known' \subseteq Fds /\ ended' \subseteq Conns /\ parsing' = [fd |-> "none", conn |-> NONE]
    BY <1>1, <1>2 DEF FramingTypeOK, Idle
  <2> QED
    BY <1>1, <1>2, <1>3, <2>1, <2>2, <2>3 DEF FramingTypeOK, Idle
<1>7. Own'
  BY <1>1, <1>2, <1>3, OwnShrinks
<1>8. Fresh'
  BY <1>1, <1>2, <1>3 DEF Fresh
<1> QED
  BY <1>5, <1>6, <1>7, <1>8 DEF Shape

LEMMA ShapeRead ==
  ASSUME Shape, NEW f \in Fds, Read(f)
  PROVE  Shape'
<1> DEFINE c == sock[f]
<1>1. FramingTypeOK /\ Carried /\ Own /\ Fresh
  BY DEF Shape
<1>2. /\ parsing = Idle /\ f \in known /\ c # NONE /\ ready' = ready \ {f}
      /\ buf' = [buf EXCEPT ![f] = buf[f] \o unread[c]]
      /\ unread' = [unread EXCEPT ![c] = <<>>]
      /\ parsing' = [fd |-> f, conn |-> c]
      /\ UNCHANGED <<clientVars, sock, edge, accepted, known, queue, history>>
  BY DEF Read
<1>3. c \in Conns
  BY <1>1, <1>2 DEF FramingTypeOK
<1>4. SentUnits' = SentUnits /\ \A d \in Conns : UnitsOf(d)' = UnitsOf(d)
  BY <1>2, SameSentUnits DEF clientVars
<1>5. /\ unread[c] \in Seq(SentUnits) /\ buf[f] \in Seq(SentUnits)
      /\ \A S : <<>> \in Seq(S)
  BY <1>1, <1>3, UnitsAreUnits, SeqMonotonic, EmptySeq DEF Carried
<1>6. buf[f] \o unread[c] \in Seq(SentUnits) /\ buf[f] \o unread[c] \in Seq(Unit)
  BY <1>5, ConcatProperties, UnitsAreUnits, SeqMonotonic
<1> HIDE DEF c
<1>7. Carried'
  BY <1>1, <1>2, <1>3, <1>4, <1>5, <1>6 DEF Carried, FramingTypeOK, clientVars
<1>8. FramingTypeOK'
  BY <1>1, <1>2, <1>3, <1>5, <1>6 DEF FramingTypeOK, clientVars, history
<1>9. Own'
  BY <1>1, <1>2, <1>3, BoundsAssumption DEF Own, FramingTypeOK, c
<1>10. Fresh'
  BY <1>1, <1>2, <1>3, <1>5 DEF Fresh, clientVars, history, FramingTypeOK
<1> QED
  BY <1>7, <1>8, <1>9, <1>10 DEF Shape

(* A length is read from the header of a frame, or is arbitrary data. *)
LEMMA HeaderIsLength ==
  ASSUME Shape, NEW f \in Fds, Len(buf[f]) >= HeaderSize
  PROVE  Header(buf[f]) \subseteq Lengths /\ Header(buf[f]) \subseteq Int
<1>1. buf[f] \in Seq(SentUnits) /\ sent \in [Conns -> Seq(Frame)]
  BY DEF Shape, Carried, FramingTypeOK
<1>2. 1 \in 1 .. Len(buf[f])
  BY <1>1, LenProperties, SizeAssumption
<1>3. buf[f][1] \in SentUnits
  BY <1>1, <1>2, ElementOfSeq
<1>4. PICK c \in Conns, k \in FrameNos : c = buf[f][1].conn /\ k = buf[f][1].frame /\ k <= Len(sent[c])
  BY <1>3 DEF SentUnits, Unit
<1>5. sent[c] \in Seq(Frame) /\ k \in 1 .. Len(sent[c])
  BY <1>1, <1>4, LenProperties DEF FrameNos
<1>6. sent[c][k].len \in Lengths
  <2>1. sent[c][k] \in Frame
    BY <1>5, ElementOfSeq
  <2> QED
    BY <2>1 DEF Frame
<1>7. Header(buf[f]) \subseteq Lengths
  BY <1>4, <1>6 DEF Header
<1> QED
  BY <1>7, LengthAssumption

(* A body that is taken for that of frame k begins with its first unit. *)
LEMMA FrameOfBody ==
  ASSUME Shape, NEW c \in Conns, NEW s \in Seq(SentUnits), s # <<>>
  PROVE  /\ FrameOf(c, s) \in {0} \cup FrameNos
         /\ FrameOf(c, s) # 0 => s[1] = U(c, FrameOf(c, s), HeaderSize + 1)
                                 /\ FrameOf(c, s) <= Len(sent[c])
<1>1. 1 \in 1 .. Len(s)
  BY EmptySeq
<1>2. s[1] \in SentUnits /\ s[1] \in Unit
  BY <1>1, ElementOfSeq, UnitsAreUnits
<1>3. SUFFICES ASSUME s[1].conn = c, s = Body(c, s[1].frame, sent[c][s[1].frame].len)
               PROVE  s[1] = U(c, s[1].frame, HeaderSize + 1)
  BY <1>2 DEF FrameOf, SentUnits, Unit
<1>4. PICK k \in FrameNos : k = s[1].frame /\ k <= Len(sent[c])
  BY <1>2, <1>3 DEF SentUnits, Unit
<1>5. PICK len \in Lengths : len = sent[c][k].len
  <2>1. sent[c] \in Seq(Frame) /\ k \in 1 .. Len(sent[c])
    BY <1>4, LenProperties DEF Shape, FramingTypeOK, FrameNos
  <2>2. sent[c][k] \in Frame
    BY <2>1, ElementOfSeq
  <2> QED
    BY <2>2 DEF Frame
<1>6. PICK u \in Seq(Unit) : u = Units(c, k, len) /\ Len(u) = HeaderSize + BodySize(len)
                             /\ \A i \in 1 .. HeaderSize + BodySize(len) : u[i] = U(c, k, i)
  <2>1. /\ Units(c, k, len) \in Seq(Unit)
        /\ Len(Units(c, k, len)) = HeaderSize + BodySize(len)
        /\ \A i \in 1 .. HeaderSize + BodySize(len) : Units(c, k, len)[i] = U(c, k, i)
    BY UnitsOfFrame, Zenon
  <2> QED
    BY <2>1
<1>7. s = SubSeq(u, HeaderSize + 1, HeaderSize + BodySize(len))
  BY <1>3, <1>4, <1>5, <1>6, Zenon DEF Body
<1>8. HeaderSize \in Nat /\ BodySize(len) \in Nat
  BY SizeAssumption, LengthAssumption DEF BodySize, Illegal
<1>9. /\ Len(SubSeq(u, HeaderSize + 1, Len(u))) + HeaderSize = Len(u)
      /\ \A i \in 1 .. Len(SubSeq(u, HeaderSize + 1, Len(u))) :
            SubSeq(u, HeaderSize + 1, Len(u))[i] = u[i + HeaderSize]
  BY <1>6, <1>8, RestOfSeq
<1>10. s[1] = u[1 + HeaderSize] /\ Len(s) = BodySize(len)
  BY <1>1, <1>6, <1>7, <1>8, <1>9
<1>11. 1 + HeaderSize \in 1 .. HeaderSize + BodySize(len) /\ 1 + HeaderSize = HeaderSize + 1
  BY <1>1, <1>8, <1>10
<1> QED
  BY <1>4, <1>6, <1>10, <1>11

LEMMA ShapeDrop ==
  ASSUME Shape, NEW f \in Fds, NEW n \in Nat, n <= Len(buf[f]), f \in known, Drop(f, n),
         UNCHANGED <<clientVars, kernelVars, known, ready, parsing, kicked, inherits, flooded, ended>>,
         queue' \in Seq([fd : Fds, conn : Conns, frame : {0} \cup FrameNos]),
         delivered' \in [Conns -> Seq({0} \cup FrameNos)],
         \A c \in Conns : c > accepted => delivered'[c] = delivered[c]
  PROVE  Shape'
<1>1. FramingTypeOK /\ Carried /\ Own /\ Fresh
  BY DEF Shape
<1>2. SentUnits' = SentUnits /\ \A d \in Conns : UnitsOf(d)' = UnitsOf(d)
  BY SameSentUnits DEF clientVars, kernelVars
<1>3. buf[f] \in Seq(SentUnits)
  BY <1>1 DEF Carried
<1>4. SubSeq(buf[f], n + 1, Len(buf[f])) \in Seq(SentUnits)
  BY <1>3, RestOfSeq
<1>5. SubSeq(buf[f], n + 1, Len(buf[f])) \in Seq(Unit)
  BY <1>4, UnitsAreUnits, SeqMonotonic
<1>6. Carried'
  BY <1>1, <1>2, <1>4 DEF Carried, FramingTypeOK, clientVars, kernelVars, Drop
<1>7. FramingTypeOK'
  BY <1>1, <1>5 DEF FramingTypeOK, clientVars, kernelVars, Drop, Idle
<1>8. Own' /\ Fresh'
  BY <1>1 DEF Own, Fresh, clientVars, kernelVars, Idle
<1> QED
  BY <1>6, <1>7, <1>8 DEF Shape

(* Where the epoll thread cuts a frame out, the connection is a real one. *)
LEMMA CutWhere ==
  ASSUME Shape, NEW f \in Fds, parsing.fd = f
  PROVE  /\ parsing \in [fd : Fds, conn : Conns] /\ parsing # Idle
         /\ parsing.conn \in Conns /\ parsing.conn <= accepted
         /\ sock[f] \in {NONE, parsing.conn}
         /\ buf[f] # <<>> => f \in known
<1>1. parsing # Idle
  BY FdsAssumption DEF Idle
<1> QED
  BY <1>1 DEF Shape, FramingTypeOK, Own

LEMMA ShapeRoutes ==
  ASSUME Shape, NEW f \in Fds, ExtractRoutes(f)
  PROVE  /\ Shape'
         /\ \E n \in Nat : /\ HeaderSize < n /\ n <= Len(buf[f]) /\ Drop(f, n)
<1> DEFINE c == parsing.conn
           k(len) == FrameOf(c, SubSeq(buf[f], HeaderSize + 1, HeaderSize + len))
<1>1. FramingTypeOK /\ Carried /\ Own /\ Fresh
  BY DEF Shape
<1>2. /\ At(f) /\ Len(buf[f]) >= HeaderSize
      /\ UNCHANGED <<clientVars, kernelVars, known, ready, parsing, kicked, inherits, flooded, ended>>
  BY DEF ExtractRoutes, At
<1>3. PICK len \in Header(buf[f]) :
         /\ ~Illegal(len) /\ len > 0 /\ Len(buf[f]) >= HeaderSize + len
         /\ queue' = Append(queue, [fd |-> f, conn |-> c, frame |-> k(len)])
         /\ delivered' = [delivered EXCEPT ![c] = Append(delivered[c], k(len))]
         /\ Drop(f, HeaderSize + len)
  BY DEF ExtractRoutes
<1>4. len \in Nat \ {0} /\ HeaderSize + len \in Nat /\ HeaderSize < HeaderSize + len
      /\ HeaderSize + len <= Len(buf[f]) /\ HeaderSize \in Nat \ {0}
  <2>1. len \in Int
    BY <1>2, HeaderIsLength
  <2>2. Len(buf[f]) \in Nat
    BY <1>1, LenProperties DEF FramingTypeOK
  <2> QED
    BY <1>3, <2>1, <2>2, SizeAssumption
<1>5. c \in Conns /\ c <= accepted /\ f \in known
  <2>1. buf[f] # <<>>
    <3>1. Len(buf[f]) # 0
      BY <1>1, <1>4, LenProperties DEF FramingTypeOK
    <3> QED
      BY <3>1, EmptySeq
  <2> QED
    BY <1>2, <2>1, CutWhere DEF At
<1>6. k(len) \in {0} \cup FrameNos
  <2>1. buf[f] \in Seq(SentUnits) /\ Len(buf[f]) \in Nat
    BY <1>1, LenProperties DEF Carried
  <2>2. \A i \in HeaderSize + 1 .. HeaderSize + len : buf[f][i] \in SentUnits
    BY <1>4, <2>1, ElementOfSeq
  <2>3. /\ SubSeq(buf[f], HeaderSize + 1, HeaderSize + len) \in Seq(SentUnits)
        /\ Len(SubSeq(buf[f], HeaderSize + 1, HeaderSize + len)) =
              IF HeaderSize + 1 <= HeaderSize + len THEN HeaderSize + len - (HeaderSize + 1) + 1 ELSE 0
    BY <1>4, <2>2, SubSeqProperties
  <2>4. Len(SubSeq(buf[f], HeaderSize + 1, HeaderSize + len)) # 0
    BY <1>4, <2>3
  <2>5. SubSeq(buf[f], HeaderSize + 1, HeaderSize + len) # <<>>
    BY <2>4, EmptySeq
  <2> QED
    BY <1>5, <2>3, <2>5, FrameOfBody
<1> HIDE DEF c, k
<1>7. queue' \in Seq([fd : Fds, conn : Conns, frame : {0} \cup FrameNos])
  BY <1>1, <1>3, <1>5, <1>6, AppendProperties DEF FramingTypeOK
<1>8. /\ delivered' \in [Conns -> Seq({0} \cup FrameNos)]
      /\ \A d \in Conns : d > accepted => delivered'[d] = delivered[d]
  <2>1. Append(delivered[c], k(len)) \in Seq({0} \cup FrameNos)
    BY <1>1, <1>5, <1>6, AppendProperties DEF FramingTypeOK
  <2>2. \A d \in Conns : d > accepted => d # c
    BY <1>1, <1>5, BoundsAssumption DEF FramingTypeOK, Conns
  <2>3. /\ delivered' \in [Conns -> Seq({0} \cup FrameNos)]
        /\ \A d \in Conns : d # c => delivered'[d] = delivered[d]
    BY <1>1, <1>3, <1>5, <2>1 DEF FramingTypeOK
  <2> QED
    BY <2>2, <2>3
<1>9. Shape'
  BY <1>2, <1>3, <1>4, <1>5, <1>7, <1>8, ShapeDrop
<1> QED
  BY <1>3, <1>4, <1>9

LEMMA ShapeStep == Shape /\ FramingStep => Shape'
<1> SUFFICES ASSUME Shape, FramingStep PROVE Shape'
  OBVIOUS
<1>1. ASSUME NEW c \in Conns, NEW frame \in Frame, Send(c, frame) PROVE Shape'
  BY <1>1, ShapeSend
<1>2. ASSUME NEW c \in Conns, Arrive(c) PROVE Shape'
  BY <1>2, ShapeArrive
<1>3. ASSUME NEW c \in Conns, HungUp(c) PROVE Shape'
  BY <1>3, ShapeHungUp
<1>4. ASSUME NEW f \in Fds, Accept(f) PROVE Shape'
  BY <1>4, ShapeAccept
<1>5. ASSUME NEW f \in Fds, Kick(f) PROVE Shape'
  BY <1>5, ShapeKick
<1>6. ASSUME NEW f \in Fds, ReadEnds(f) PROVE Shape'
  <2>1. Disconnect(f) /\ ready' \subseteq Fds
    BY <1>6 DEF ReadEnds, Shape, FramingTypeOK
  <2> QED
    BY <2>1, ShapeDisconnect
<1>7. ASSUME NEW f \in Fds, Read(f) PROVE Shape'
  BY <1>7, ShapeRead
<1>8. ASSUME NEW f \in Fds, ExtractEnds(f) PROVE Shape'
  <2>1. Disconnect(f) /\ ready' \subseteq Fds
    BY <1>8 DEF ExtractEnds, Shape, FramingTypeOK
  <2> QED
    BY <2>1, ShapeDisconnect
<1>9. ASSUME NEW f \in Fds, ExtractSkips(f) PROVE Shape'
  <2>1. /\ Drop(f, HeaderSize) /\ HeaderSize <= Len(buf[f]) /\ parsing.fd = f
        /\ UNCHANGED <<clientVars, kernelVars, known, ready, parsing, queue, history>>
    BY <1>9, SizeAssumption DEF ExtractSkips, At
  <2>2. HeaderSize \in Nat \ {0} /\ Len(buf[f]) # 0
    BY <2>1, SizeAssumption
  <2>3. f \in known
    BY <2>1, <2>2, CutWhere, EmptySeq
  <2>4. /\ queue' \in Seq([fd : Fds, conn : Conns, frame : {0} \cup FrameNos])
        /\ delivered' \in [Conns -> Seq({0} \cup FrameNos)] /\ delivered' = delivered
    BY <2>1 DEF Shape, FramingTypeOK, history
  <2>5. UNCHANGED <<clientVars, kernelVars, known, ready, parsing, kicked, inherits, flooded, ended>>
    BY <2>1 DEF history
  <2> QED
    BY <2>1, <2>2, <2>3, <2>4, <2>5, ShapeDrop
<1>10. ASSUME NEW f \in Fds, ExtractRoutes(f) PROVE Shape'
  BY <1>10, ShapeRoutes
<1>11. CASE EpollWait \/ (\E f \in Fds : ExtractWaits(f)) \/ UNCHANGED framingVars
  <2>1. /\ UNCHANGED <<clientVars, sock, unread, accepted, known, buf, queue, history>>
        /\ ready' \subseteq Fds /\ edge' \subseteq Conns /\ parsing' \in {parsing, Idle}
    BY <1>11 DEF EpollWait, ExtractWaits, framingVars, kernelVars, mainVars, Shape, FramingTypeOK
  <2>2. SentUnits' = SentUnits /\ \A d \in Conns : UnitsOf(d)' = UnitsOf(d)
    BY <2>1, SameSentUnits DEF clientVars
  <2>3. Carried'
    BY <2>1, <2>2 DEF Shape, Carried, clientVars
  <2>4. FramingTypeOK'
    BY <2>1 DEF Shape, FramingTypeOK, clientVars, history, Idle
  <2>5. Own' /\ Fresh'
    BY <2>1 DEF Shape, Own, Fresh, clientVars, history, Idle
  <2> QED
    BY <2>3, <2>4, <2>5 DEF Shape
<1>12. CASE TakeItem
  <2>1. /\ UNCHANGED <<clientVars, kernelVars, mainVars, history>>
        /\ queue' \in Seq([fd : Fds, conn : Conns, frame : {0} \cup FrameNos])
    BY <1>12, HeadTailProperties DEF TakeItem, Shape, FramingTypeOK
  <2>2. SentUnits' = SentUnits /\ \A d \in Conns : UnitsOf(d)' = UnitsOf(d)
    BY <2>1, SameSentUnits DEF clientVars, kernelVars
  <2>3. Carried'
    BY <2>1, <2>2 DEF Shape, Carried, clientVars, kernelVars, mainVars
  <2>4. FramingTypeOK'
    BY <2>1 DEF Shape, FramingTypeOK, clientVars, kernelVars, mainVars, history, Idle
  <2>5. Own' /\ Fresh'
    BY <2>1 DEF Shape, Own, Fresh, clientVars, kernelVars, mainVars, history, Idle
  <2> QED
    BY <2>3, <2>4, <2>5 DEF Shape
<1> QED
  BY <1>1, <1>2, <1>3, <1>4, <1>5, <1>6, <1>7, <1>8, <1>9, <1>10, <1>11, <1>12
     DEF FramingStep, Main

----------------------------------------------------------------------------
(* What has been handed over, and what comes next.                             *)
Items(ds) == {ds[i] : i \in 1 .. Len(ds)}

\* The frames before n are legal and, if they have a payload, handed over; the
\* others are not.
Upto(n, fs, ds) ==
    \A j \in 1 .. Len(fs) :
       IF j < n THEN ~Illegal(fs[j].len) /\ (fs[j].len # 0 => j \in Items(ds))
       ELSE j \notin Items(ds)

\* s is what is left of the frames fs of c when those in ds have been handed
\* over; a stream that can still grow ends with the last frame.
Sound(s, c, live, fs, ds) ==
    /\ Placed(s, c, fs)
    /\ live => Complete(s, fs)
    /\ s # <<>> => Upto(s[1].frame, fs, ds)
    /\ s = <<>> /\ live => Upto(Len(fs) + 1, fs, ds)

LEMMA FirstUnit ==
  ASSUME NEW s \in Seq(Unit), NEW c, NEW fs \in Seq(Frame), s # <<>>, Placed(s, c, fs)
  PROVE  /\ s[1].frame \in 1 .. Len(fs) /\ 1 \in 1 .. Len(s) /\ s[1].pos = 1
         /\ \A q \in 1 .. Size(fs, s[1].frame) : q <= Len(s) => s[q] = U(c, s[1].frame, q)
<1>1. 1 \in 1 .. Len(s)
  BY EmptySeq
<1>2. Stands(s, 1, c, fs)
  BY <1>1 DEF Placed
<1>3. s[1].pos = 1 /\ s[1].frame \in 1 .. Len(fs)
  <2>1. s[1].frame \in 1 .. Len(fs)
    BY <1>2 DEF Stands
  <2>2. Size(fs, s[1].frame) \in Nat
    BY <2>1, SizeIsNat
  <2> QED
    BY <1>2, <2>1, <2>2 DEF Stands
<1>4. ASSUME NEW q \in 1 .. Size(fs, s[1].frame), q <= Len(s) PROVE s[q] = U(c, s[1].frame, q)
  <2>1. 1 - 1 + q = q
    BY <1>3, SizeIsNat
  <2> QED
    BY <1>2, <1>3, <1>4, <2>1 DEF Stands
<1> QED
  BY <1>1, <1>3, <1>4

LEMMA SoundPrefix ==
  ASSUME NEW s \in Seq(Unit), NEW t \in Seq(Unit), NEW c, NEW fs \in Seq(Frame), NEW ds,
         NEW live, Len(t) <= Len(s), \A i \in 1 .. Len(t) : t[i] = s[i],
         Sound(s, c, live, fs, ds)
  PROVE  Sound(t, c, FALSE, fs, ds)
<1>1. Placed(t, c, fs)
  BY PlacedPrefix DEF Sound
<1>2. ASSUME t # <<>> PROVE Upto(t[1].frame, fs, ds)
  <2>1. 1 \in 1 .. Len(t) /\ Len(s) # 0
    BY <1>2, EmptySeq, LenProperties
  <2>2. t[1] = s[1] /\ s # <<>>
    BY <2>1, EmptySeq
  <2> QED
    BY <2>2 DEF Sound
<1> QED
  BY <1>1, <1>2 DEF Sound

LEMMA UptoAppend ==
  ASSUME NEW fs \in Seq(Frame), NEW fr \in Frame, NEW ds, NEW n \in Nat, n <= Len(fs) + 1,
         Upto(n, fs, ds), Len(fs) + 1 \notin Items(ds)
  PROVE  Upto(n, Append(fs, fr), ds)
<1>1. PICK g \in Nat : g = Len(fs)
  BY LenProperties
<1>2. /\ Len(Append(fs, fr)) = g + 1
      /\ \A i \in 1 .. g : Append(fs, fr)[i] = fs[i]
  BY <1>1, AppendProperties
<1>3. ASSUME NEW j \in 1 .. g + 1
      PROVE  IF j < n THEN ~Illegal(Append(fs, fr)[j].len) /\ (Append(fs, fr)[j].len # 0 => j \in Items(ds))
             ELSE j \notin Items(ds)
  <2>1. CASE j = g + 1
    BY <1>1, <2>1
  <2>2. CASE j # g + 1
    <3>1. j \in 1 .. g
      BY <2>2
    <3> QED
      BY <1>1, <1>2, <3>1 DEF Upto
  <2> QED
    BY <2>1, <2>2
<1> QED
  BY <1>2, <1>3 DEF Upto

LEMMA SoundAppend ==
  ASSUME NEW s \in Seq(Unit), NEW c \in Conns, NEW fs \in Seq(Frame), NEW fr \in Frame, NEW ds,
         Len(fs) + 1 \in FrameNos, Len(fs) + 1 \notin Items(ds), Sound(s, c, TRUE, fs, ds)
  PROVE  Sound(s \o Units(c, Len(fs) + 1, fr.len), c, TRUE, Append(fs, fr), ds)
<1>1. PICK u \in Seq(Unit) : /\ u = Units(c, Len(fs) + 1, fr.len) /\ Len(u) \in Nat \ {0}
                             /\ u[1] = U(c, Len(fs) + 1, 1)
  <2>1. fr.len \in Lengths
    BY DEF Frame
  <2>2. /\ Units(c, Len(fs) + 1, fr.len) \in Seq(Unit)
        /\ Len(Units(c, Len(fs) + 1, fr.len)) \in Nat \ {0}
        /\ Units(c, Len(fs) + 1, fr.len)[1] = U(c, Len(fs) + 1, 1)
    BY <2>1, UnitsOfFrame
  <2> QED
    BY <2>2
<1>2. PICK t \in Seq(Unit) : t = s \o u /\ Len(t) = Len(s) + Len(u)
                             /\ \A i \in 1 .. Len(s) + Len(u) : t[i] = IF i <= Len(s) THEN s[i] ELSE u[i - Len(s)]
  <2>1. /\ s \o u \in Seq(Unit) /\ Len(s \o u) = Len(s) + Len(u)
        /\ \A i \in 1 .. Len(s) + Len(u) : (s \o u)[i] = IF i <= Len(s) THEN s[i] ELSE u[i - Len(s)]
    BY ConcatProperties
  <2> QED
    BY <2>1
<1>3. Placed(t, c, Append(fs, fr)) /\ Complete(t, Append(fs, fr))
  BY <1>1, <1>2, PlacedAppend DEF Sound
<1>4. t # <<>> /\ 1 \in 1 .. Len(s) + Len(u) /\ Len(s) \in Nat
  <2>1. Len(s) \in Nat
    BY LenProperties
  <2>2. Len(s) + Len(u) # 0 /\ 1 \in 1 .. Len(s) + Len(u)
    BY <1>1, <2>1
  <2> QED
    BY <1>2, <2>1, <2>2, EmptySeq
<1>5. Len(fs) \in Nat
  BY LenProperties
<1>6. Upto(t[1].frame, Append(fs, fr), ds)
  <2>1. CASE s = <<>>
    <3>1. Len(s) = 0 /\ Upto(Len(fs) + 1, fs, ds)
      BY <2>1, EmptySeq DEF Sound
    <3>2. t[1] = u[1 - 0] /\ 1 - 0 = 1
      BY <1>2, <1>4, <3>1
    <3>3. t[1].frame = Len(fs) + 1
      BY <1>1, <3>2 DEF U
    <3> QED
      BY <1>5, <3>1, <3>3, UptoAppend
  <2>2. CASE s # <<>>
    <3>1. s[1].frame \in 1 .. Len(fs) /\ 1 <= Len(s) /\ Upto(s[1].frame, fs, ds)
      BY <2>2, FirstUnit DEF Sound
    <3>2. t[1] = s[1]
      BY <1>2, <1>4, <3>1
    <3>3. s[1].frame \in Nat /\ s[1].frame <= Len(fs) + 1
      BY <1>5, <3>1
    <3> QED
      BY <3>1, <3>2, <3>3, UptoAppend
  <2> QED
    BY <2>1, <2>2
<1> QED
  BY <1>1, <1>2, <1>3, <1>4, <1>6 DEF Sound

LEMMA SoundMore ==
  ASSUME NEW s \in Seq(Unit), NEW c, NEW fs \in Seq(Frame), NEW fr \in Frame, NEW ds,
         Len(fs) + 1 \notin Items(ds), Sound(s, c, FALSE, fs, ds)
  PROVE  Sound(s, c, FALSE, Append(fs, fr), ds)
<1>1. PICK g \in Nat : g = Len(fs)
  BY LenProperties
<1>2. /\ Len(Append(fs, fr)) = g + 1
      /\ \A i \in 1 .. g : Append(fs, fr)[i] = fs[i]
  BY <1>1, AppendProperties
<1>3. ASSUME NEW i \in 1 .. Len(s) PROVE Stands(s, i, c, Append(fs, fr))
  <2>1. Stands(s, i, c, fs)
    BY DEF Sound, Placed
  <2>2. s[i].frame \in 1 .. g /\ s[i].frame \in 1 .. g + 1
    BY <1>1, <2>1 DEF Stands
  <2>3. Size(Append(fs, fr), s[i].frame) = Size(fs, s[i].frame)
    BY <1>2, <2>2 DEF Size
  <2> QED
    BY <1>2, <2>1, <2>2, <2>3 DEF Stands
<1>4. ASSUME s # <<>> PROVE Upto(s[1].frame, Append(fs, fr), ds)
  <2>1. s[1].frame \in 1 .. g /\ Upto(s[1].frame, fs, ds)
    BY <1>1, <1>4, FirstUnit DEF Sound
  <2> QED
    BY <1>1, <2>1, UptoAppend
<1> QED
  BY <1>3, <1>4 DEF Sound, Placed

LEMMA SoundDrop ==
  ASSUME NEW s \in Seq(Unit), NEW c, NEW fs \in Seq(Frame), NEW ds, NEW es, NEW live,
         s # <<>>, Sound(s, c, live, fs, ds), Size(fs, s[1].frame) <= Len(s),
         Upto(s[1].frame + 1, fs, es)
  PROVE  Sound(SubSeq(s, Size(fs, s[1].frame) + 1, Len(s)), c, live, fs, es)
<1>1. PICK k \in 1 .. Len(fs) : /\ k = s[1].frame
                                /\ \A q \in 1 .. Size(fs, k) : q <= Len(s) => s[q] = U(c, k, q)
  BY FirstUnit DEF Sound
<1>2. PICK n \in Nat \ {0} : n = Size(fs, k) /\ n <= Len(s)
  BY <1>1, SizeIsNat
<1>3. PICK t \in Seq(Unit) : /\ t = SubSeq(s, n + 1, Len(s)) /\ Len(t) + n = Len(s)
                             /\ \A i \in 1 .. Len(t) : t[i] = s[i + n]
  <2>1. /\ SubSeq(s, n + 1, Len(s)) \in Seq(Unit)
        /\ Len(SubSeq(s, n + 1, Len(s))) + n = Len(s)
        /\ \A i \in 1 .. Len(SubSeq(s, n + 1, Len(s))) : SubSeq(s, n + 1, Len(s))[i] = s[i + n]
    BY <1>2, RestOfSeq
  <2> QED
    BY <2>1
<1>4. Placed(t, c, fs) /\ (t # <<>> => t[1].frame = k + 1)
  BY <1>1, <1>2, <1>3, PlacedRest DEF Sound
<1>5. Len(t) \in Nat /\ Len(s) \in Nat
  BY LenProperties
<1>6. ASSUME live, t # <<>> PROVE t[Len(t)].frame = Len(fs) /\ t[Len(t)].pos = Size(fs, Len(fs))
  <2>1. Len(t) \in 1 .. Len(t)
    BY <1>6, EmptySeq
  <2>2. t[Len(t)] = s[Len(s)]
    BY <1>3, <2>1
  <2> QED
    BY <1>6, <2>2 DEF Sound, Complete
<1>7. ASSUME live, t = <<>> PROVE Upto(Len(fs) + 1, fs, es)
  <2>1. Len(t) = 0
    BY <1>7, EmptySeq
  <2>2. n = Len(s) /\ n \in 1 .. Size(fs, k)
    BY <1>2, <1>3, <1>5, <2>1
  <2>3. s[n] = U(c, k, n)
    BY <1>1, <1>2, <2>2
  <2>4. s[Len(s)].frame = k
    BY <2>2, <2>3 DEF U
  <2>5. k = Len(fs)
    BY <1>7, <2>4 DEF Sound, Complete
  <2> QED
    BY <1>1, <2>5
<1>8. Sound(t, c, live, fs, es)
  BY <1>1, <1>4, <1>6, <1>7 DEF Sound, Complete
<1> QED
  BY <1>1, <1>2, <1>3, <1>8

----------------------------------------------------------------------------
(* The stream of an fd number: what is in its buffer, in its socket and on its *)
(* way to it.                                                                  *)
Behind(f) == IF sock[f] = NONE THEN <<>> ELSE unread[sock[f]] \o flight[sock[f]]
Stream(f) == buf[f] \o Behind(f)

\* The connection whose frames are cut out of the buffer of f, or would be, and
\* whether it can send more.
Cur(f)  == IF parsing.fd = f THEN parsing.conn ELSE sock[f]
Live(f) == sock[f] = Cur(f) /\ Cur(f) \notin fin

FlowAt(f) ==
    /\ Sorted(Stream(f))
    /\ Cur(f) \notin inherits \cup {NONE} =>
          Sound(Stream(f), Cur(f), Live(f), sent[Cur(f)], delivered[Cur(f)])

\* Only frames that were sent are handed over.
HandedSent == \A c \in Conns : \A i \in 1 .. Len(delivered[c]) : delivered[c][i] <= Len(sent[c])

\* Too much in the buffer and the socket has not gone unnoticed.
Flood ==
    \A f \in Fds : sock[f] # NONE /\ Len(buf[f]) + Len(unread[sock[f]]) > Limit =>
       sock[f] \in flooded \cup inherits

FlowInv == (\A f \in Fds : FlowAt(f)) /\ HandedSent /\ Flood

\* The provers find their way through \o only between constants.
Cat(a, b) == a \o b

LEMMA CatAssociative ==
  ASSUME NEW S, NEW a \in Seq(S), NEW b \in Seq(S), NEW c \in Seq(S)
  PROVE  Cat(a, Cat(b, c)) = Cat(Cat(a, b), c)
<1>1. a \o (b \o c) = (a \o b) \o c
  BY ConcatAssociative
<1> QED
  BY <1>1 DEF Cat

LEMMA StreamType ==
  ASSUME Shape, NEW f \in Fds
  PROVE  /\ buf[f] \in Seq(SentUnits) /\ Behind(f) \in Seq(SentUnits)
         /\ Stream(f) \in Seq(SentUnits) /\ Stream(f) \in Seq(Unit)
         /\ Len(buf[f]) \in Nat /\ Len(Behind(f)) \in Nat
         /\ Len(Stream(f)) = Len(buf[f]) + Len(Behind(f)) /\ Len(buf[f]) <= Len(Stream(f))
         /\ \A i \in 1 .. Len(buf[f]) : Stream(f)[i] = buf[f][i]
         /\ \A i \in 1 .. Len(Stream(f)) : Stream(f)[i].frame <= Len(sent[Stream(f)[i].conn])
<1>1. buf[f] \in Seq(SentUnits) /\ sock[f] \in Conns \cup {NONE}
  BY DEF Shape, Carried, FramingTypeOK
<1>2. Behind(f) \in Seq(SentUnits)
  <2>1. CASE sock[f] = NONE
    BY <2>1, EmptySeq DEF Behind
  <2>2. CASE sock[f] \in Conns
    <3>1. unread[sock[f]] \in Seq(SentUnits) /\ flight[sock[f]] \in Seq(SentUnits)
      BY <2>2, UnitsAreUnits, SeqMonotonic DEF Shape, Carried
    <3>2. sock[f] # NONE
      BY <2>2, BoundsAssumption DEF Conns, NONE
    <3> QED
      BY <3>1, <3>2, ConcatProperties DEF Behind
  <2> QED
    BY <1>1, <2>1, <2>2
<1>3. /\ Stream(f) \in Seq(SentUnits)
      /\ Len(Stream(f)) = Len(buf[f]) + Len(Behind(f))
      /\ \A i \in 1 .. Len(buf[f]) + Len(Behind(f)) : Stream(f)[i] =
            IF i <= Len(buf[f]) THEN buf[f][i] ELSE Behind(f)[i - Len(buf[f])]
  BY <1>1, <1>2, ConcatProperties DEF Stream
<1>4. Len(buf[f]) \in Nat /\ Len(Behind(f)) \in Nat
  BY <1>1, <1>2, LenProperties
<1>5. \A i \in 1 .. Len(buf[f]) : i \in 1 .. Len(buf[f]) + Len(Behind(f)) /\ i <= Len(buf[f])
  BY <1>4
<1>6. Stream(f) \in Seq(Unit)
  BY <1>3, UnitsAreUnits, SeqMonotonic
<1>7. ASSUME NEW i \in 1 .. Len(Stream(f))
      PROVE  Stream(f)[i].frame <= Len(sent[Stream(f)[i].conn])
  <2>1. Stream(f)[i] \in SentUnits
    BY <1>3, ElementOfSeq
  <2> QED
    BY <2>1 DEF SentUnits
<1>8. Len(buf[f]) <= Len(Stream(f))
  BY <1>3, <1>4
<1> QED
  BY <1>1, <1>2, <1>3, <1>4, <1>5, <1>6, <1>7, <1>8

(* A connection that is parsed or open at f is not open at another number. *)
LEMMA CurOwn ==
  ASSUME Shape, NEW f \in Fds, NEW g \in Fds, Cur(f) # NONE, sock[g] = Cur(f)
  PROVE  f = g
<1>1. CASE parsing.fd = f
  BY <1>1, CutWhere DEF Cur, Shape, Own
<1>2. CASE parsing.fd # f
  BY <1>2 DEF Cur, Shape, Own
<1> QED
  BY <1>1, <1>2

LEMMA CurIsConn ==
  ASSUME Shape, NEW f \in Fds
  PROVE  Cur(f) \in Conns \cup {NONE} /\ Cur(f) <= accepted /\ sock[f] \in {NONE, Cur(f)}
<1>1. CASE parsing.fd = f
  BY <1>1, CutWhere DEF Cur
<1>2. CASE parsing.fd # f
  BY <1>2 DEF Cur, Shape, Own, FramingTypeOK
<1> QED
  BY <1>1, <1>2

LEMMA FlowSame ==
  ASSUME NEW f \in Fds, FlowAt(f), Stream(f)' = Stream(f), Cur(f)' \in {Cur(f), NONE},
         Cur(f)' # NONE /\ Live(f)' => Live(f), inherits \subseteq inherits',
         sent'[Cur(f)] = sent[Cur(f)], delivered'[Cur(f)] = delivered[Cur(f)]
  PROVE  FlowAt(f)'
<1>1. Sorted(Stream(f))'
  <2>1. Sorted(Stream(f)')
    BY DEF FlowAt
  <2> QED
    BY <2>1 DEF Sorted
<1>2. ASSUME Cur(f)' \notin inherits' \cup {NONE}
      PROVE  Sound(Stream(f)', Cur(f)', Live(f)', sent'[Cur(f)'], delivered'[Cur(f)'])
  <2>1. Cur(f)' = Cur(f) /\ Sound(Stream(f), Cur(f), Live(f), sent[Cur(f)], delivered[Cur(f)])
    BY <1>2 DEF FlowAt
  <2>2. Live(f)' => Live(f)
    BY <1>2
  <2> QED
    BY <2>1, <2>2 DEF Sound
<1> QED
  BY <1>1, <1>2 DEF FlowAt, Sorted, Sound, Placed, Stands, Complete, Upto, Items, Size, Before, U

LEMMA FlowPrefix ==
  ASSUME Shape, NEW f \in Fds, FlowAt(f), Cur(f)' \in {Cur(f), NONE},
         Cur(f)' # NONE => ~Live(f)',
         Stream(f)' \in Seq(Unit), Len(Stream(f)') <= Len(Stream(f)),
         \A i \in 1 .. Len(Stream(f)') : Stream(f)'[i] = Stream(f)[i],
         sent' = sent, delivered' = delivered, inherits' = inherits
  PROVE  FlowAt(f)'
<1>1. Stream(f) \in Seq(Unit)
  BY StreamType
<1>2. Sorted(Stream(f)')
  BY <1>1, SortedPrefix DEF FlowAt
<1>3. ASSUME Cur(f)' \notin inherits' \cup {NONE}
      PROVE  Sound(Stream(f)', Cur(f)', Live(f)', sent'[Cur(f)'], delivered'[Cur(f)'])
  <2>1. Cur(f)' = Cur(f) /\ Sound(Stream(f), Cur(f), Live(f), sent[Cur(f)], delivered[Cur(f)])
    BY <1>3 DEF FlowAt
  <2>2. sent[Cur(f)] \in Seq(Frame)
    BY <1>3, <2>1, CurIsConn DEF Shape, FramingTypeOK
  <2>3. Sound(Stream(f)', Cur(f), FALSE, sent[Cur(f)], delivered[Cur(f)])
    BY <1>1, <2>1, <2>2, SoundPrefix
  <2>4. Live(f)' = FALSE
    BY <1>3 DEF Live
  <2> QED
    BY <2>1, <2>3, <2>4
<1> QED
  BY <1>2, <1>3 DEF FlowAt, Sorted, Sound, Placed, Stands, Complete, Upto, Items, Size, Before, U

(* The steps, one after the other: what each does to the streams. *)
LEMMA FlowSend ==
  ASSUME Shape, FlowInv, NEW c \in Conns, NEW frame \in Frame, Send(c, frame)
  PROVE  FlowInv'
<1> DEFINE k == Len(sent[c]) + 1
           u == Units(c, k, frame.len)
<1>1. /\ sent' = [sent EXCEPT ![c] = Append(sent[c], frame)]
      /\ flight' = [flight EXCEPT ![c] = flight[c] \o u]
      /\ UNCHANGED <<fin, kernelVars, mainVars, queue, history>>
      /\ c \notin fin /\ Len(sent[c]) < MaxFrames
  BY DEF Send
<1>2. /\ sent[c] \in Seq(Frame) /\ Len(sent[c]) \in Nat /\ k \in FrameNos
      /\ sent'[c] = Append(sent[c], frame) /\ \A d \in Conns : d # c => sent'[d] = sent[d]
  BY <1>1, LenProperties, BoundsAssumption DEF Shape, FramingTypeOK, FrameNos
<1>3. u \in Seq(Unit)
  BY <1>2, UnitsOfFrame DEF Frame
<1>4. k \notin Items(delivered[c])
  BY <1>2 DEF FlowInv, HandedSent, Items
<1>5. Len(sent'[c]) = k
  BY <1>2, AppendProperties
<1>6. ASSUME NEW f \in Fds, sock[f] # c PROVE Stream(f)' = Stream(f)
  BY <1>1, <1>6 DEF Stream, Behind, Shape, FramingTypeOK, kernelVars, mainVars
<1>7. ASSUME NEW f \in Fds, sock[f] = c PROVE Stream(f)' = Stream(f) \o u
  <2> HIDE DEF k, u
  <2>1. c # NONE
    BY BoundsAssumption DEF Conns, NONE
  <2>2. buf[f] \in Seq(Unit) /\ unread[c] \in Seq(Unit) /\ flight[c] \in Seq(Unit)
    BY DEF Shape, FramingTypeOK
  <2>3. Behind(f)' = unread[c] \o u /\ Behind(f) = unread[c]
    <3>1. flight[c] = <<>> /\ flight'[c] = flight[c] \o u /\ sock'[f] = c /\ unread'[c] = unread[c]
      BY <1>1, <1>7 DEF kernelVars, Shape, FramingTypeOK, Send
    <3>2. <<>> \o u = u /\ unread[c] \o <<>> = unread[c]
      BY <1>3, <2>2, ConcatEmptySeq
    <3> QED
      BY <1>7, <2>1, <3>1, <3>2 DEF Behind
  <2>4. buf[f] \o (unread[c] \o u) = (buf[f] \o unread[c]) \o u
    <3>1. Cat(buf[f], Cat(unread[c], u)) = Cat(Cat(buf[f], unread[c]), u)
      BY <1>3, <2>2, CatAssociative
    <3> QED
      BY <3>1 DEF Cat
  <2>7. buf'[f] = buf[f]
    BY <1>1 DEF mainVars
  <2> QED
    BY <2>3, <2>4, <2>7 DEF Stream
<1>8. \A f \in Fds : Cur(f)' = Cur(f) /\ Live(f)' = Live(f)
  BY <1>1 DEF Cur, Live, kernelVars, mainVars
<1> HIDE DEF k, u
<1>9. ASSUME NEW f \in Fds PROVE FlowAt(f)'
  <2>1. FlowAt(f) /\ inherits' = inherits /\ delivered' = delivered
    BY <1>1 DEF FlowInv, history
  <2>2. Stream(f) \in Seq(Unit)
    BY StreamType
  <2>3. CASE Cur(f) # c
    <3>1. sock[f] # c
      BY <2>3, CurIsConn, BoundsAssumption DEF Conns, NONE
    <3>2. Stream(f)' = Stream(f)
      BY <1>6, <3>1
    <3>3. CASE Cur(f) = NONE
      <4>1. Cur(f)' = NONE
        BY <1>8, <3>3
      <4>2. Sorted(Stream(f)')
        BY <2>1, <3>2 DEF FlowAt
      <4> QED
        BY <4>1, <4>2 DEF FlowAt, Sorted, Before
    <3>4. CASE Cur(f) # NONE
      <4>1. Cur(f) \in Conns /\ sent'[Cur(f)] = sent[Cur(f)]
        BY <1>2, <2>3, <3>4, CurIsConn
      <4> QED
        BY <1>8, <2>1, <3>2, <4>1, FlowSame
    <3> QED
      BY <3>3, <3>4
  <2>4. CASE Cur(f) = c /\ sock[f] # c
    <3>1. Stream(f)' = Stream(f) /\ ~Live(f)
      BY <1>6, <2>4 DEF Live
    <3>2. ASSUME c \notin inherits PROVE Sound(Stream(f), c, FALSE, Append(sent[c], frame), delivered[c])
      <4>1. c # NONE
        BY BoundsAssumption DEF Conns, NONE
      <4>2. Live(f) = FALSE
        BY <3>1 DEF Live
      <4>3. Sound(Stream(f), c, FALSE, sent[c], delivered[c])
        BY <2>1, <2>4, <3>2, <4>1, <4>2 DEF FlowAt
      <4> QED
        BY <1>2, <1>4, <2>2, <4>3, SoundMore DEF k
    <3>3. ASSUME Cur(f)' \notin inherits' \cup {NONE}
          PROVE  Sound(Stream(f)', Cur(f)', Live(f)', sent'[Cur(f)'], delivered'[Cur(f)'])
      <4>1. Live(f)' = FALSE /\ Cur(f)' = c
        BY <1>8, <2>4, <3>1 DEF Live
      <4> QED
        BY <1>2, <2>1, <3>1, <3>2, <3>3, <4>1
    <3>4. Sorted(Stream(f)')
      BY <2>1, <3>1 DEF FlowAt
    <3> QED
      BY <3>3, <3>4 DEF FlowAt, Sorted, Sound, Placed, Stands, Complete, Upto, Items, Size, Before, U
  <2>5. CASE Cur(f) = c /\ sock[f] = c
    <3>1. Stream(f)' = Stream(f) \o u /\ Live(f) = TRUE
      BY <1>1, <1>7, <2>5 DEF Live
    <3>2. Sorted(Stream(f)')
      <4>1. \A i \in 1 .. Len(Stream(f)) : Stream(f)[i].conn = c => Stream(f)[i].frame < k
        <5> SUFFICES ASSUME NEW i \in 1 .. Len(Stream(f)), Stream(f)[i].conn = c
                     PROVE  Stream(f)[i].frame < k
          OBVIOUS
        <5>1. Stream(f)[i] \in Unit
          BY <2>2, ElementOfSeq
        <5>2. Stream(f)[i].frame <= Len(sent[c])
          BY StreamType
        <5>3. Stream(f)[i].frame \in Nat
          BY <5>1 DEF Unit, FrameNos
        <5> QED
          BY <1>2, <5>2, <5>3 DEF k
      <4> QED
        BY <1>2, <2>1, <2>2, <3>1, <4>1, SortedAppend DEF FlowAt, Frame, u
    <3>3. ASSUME c \notin inherits PROVE Sound(Stream(f) \o u, c, TRUE, Append(sent[c], frame), delivered[c])
      <4>1. c # NONE
        BY BoundsAssumption DEF Conns, NONE
      <4>2. Sound(Stream(f), c, TRUE, sent[c], delivered[c])
        BY <2>1, <2>5, <3>1, <3>3, <4>1 DEF FlowAt
      <4> QED
        BY <1>2, <1>4, <2>2, <4>2, SoundAppend DEF k, u
    <3>4. ASSUME Cur(f)' \notin inherits' \cup {NONE}
          PROVE  Sound(Stream(f)', Cur(f)', Live(f)', sent'[Cur(f)'], delivered'[Cur(f)'])
      <4>1. Live(f)' = TRUE /\ Cur(f)' = c
        BY <1>8, <2>5, <3>1
      <4> QED
        BY <1>2, <2>1, <3>1, <3>3, <3>4, <4>1
    <3> QED
      BY <3>2, <3>4 DEF FlowAt, Sorted, Sound, Placed, Stands, Complete, Upto, Items, Size, Before, U
  <2> QED
    BY <2>3, <2>4, <2>5
<1>10. HandedSent'
  <2>1. delivered' = delivered
    BY <1>1 DEF history
  <2>2. ASSUME NEW d \in Conns, NEW i \in 1 .. Len(delivered[d]) PROVE delivered[d][i] <= Len(sent'[d])
    <3>1. delivered[d][i] <= Len(sent[d])
      BY DEF FlowInv, HandedSent
    <3>2. delivered[d][i] \in Nat
      <4>1. delivered[d] \in Seq({0} \cup FrameNos)
        BY DEF Shape, FramingTypeOK
      <4>2. delivered[d][i] \in {0} \cup FrameNos
        BY <4>1, ElementOfSeq
      <4> QED
        BY <4>2 DEF FrameNos
    <3>3. CASE d = c
      <4>1. k = Len(sent[c]) + 1
        BY DEF k
      <4> QED
        BY <1>2, <1>5, <3>1, <3>2, <3>3, <4>1
    <3> QED
      BY <1>2, <3>1, <3>3
  <2> QED
    BY <2>1, <2>2 DEF HandedSent
<1>11. Flood'
  BY <1>1 DEF FlowInv, Flood, kernelVars, mainVars, history
<1> QED
  BY <1>9, <1>10, <1>11 DEF FlowInv

LEMMA ConcatPrefix ==
  ASSUME NEW S, NEW s \in Seq(S), NEW t \in Seq(S)
  PROVE  Len(s) <= Len(s \o t) /\ \A i \in 1 .. Len(s) : (s \o t)[i] = s[i]
<1>1. Len(s) \in Nat /\ Len(t) \in Nat
  BY LenProperties
<1>2. /\ Len(s \o t) = Len(s) + Len(t)
      /\ \A i \in 1 .. Len(s) + Len(t) : (s \o t)[i] = IF i <= Len(s) THEN s[i] ELSE t[i - Len(s)]
  BY ConcatProperties
<1>3. \A i \in 1 .. Len(s) : i \in 1 .. Len(s) + Len(t) /\ i <= Len(s)
  BY <1>1
<1> QED
  BY <1>1, <1>2, <1>3

LEMMA NoConnIsNone == NONE \notin Conns
BY BoundsAssumption DEF NONE, Conns

LEMMA FlowArrive ==
  ASSUME Shape, FlowInv, NEW c \in Conns, Arrive(c)
  PROVE  FlowInv'
<1>1. PICK n \in 1 .. Len(flight[c]) :
         /\ unread' = [unread EXCEPT ![c] = unread[c] \o SubSeq(flight[c], 1, n)]
         /\ flight' = [flight EXCEPT ![c] = SubSeq(flight[c], n + 1, Len(flight[c]))]
  BY DEF Arrive
<1>2. /\ UNCHANGED <<sent, fin, sock, accepted, mainVars, queue, delivered, kicked, inherits, ended>>
      /\ flooded' = IF \E f \in Fds : sock[f] = c /\ Len(buf[f]) + Len(unread'[c]) > Limit
                    THEN flooded \cup {c} ELSE flooded
  BY DEF Arrive
<1>3. unread[c] \in Seq(Unit) /\ flight[c] \in Seq(Unit)
  BY DEF Shape, FramingTypeOK
<1>4. n \in Nat /\ n <= Len(flight[c])
  BY <1>3, LenProperties
<1>5. unread'[c] \o flight'[c] = unread[c] \o flight[c]
  <2>1. PICK x : x = SubSeq(flight[c], 1, n)
    OBVIOUS
  <2>2. PICK y : y = SubSeq(flight[c], n + 1, Len(flight[c]))
    OBVIOUS
  <2>3. x \in Seq(Unit) /\ y \in Seq(Unit) /\ x \o y = flight[c]
    BY <1>3, <1>4, <2>1, <2>2, CutSeq, RestOfSeq
  <2>4. Cat(unread[c], Cat(x, y)) = Cat(Cat(unread[c], x), y)
    BY <1>3, <2>3, CatAssociative
  <2>5. unread[c] \o (x \o y) = (unread[c] \o x) \o y
    BY <2>4 DEF Cat
  <2>6. unread'[c] = unread[c] \o x /\ flight'[c] = y
    BY <1>1, <2>1, <2>2 DEF Shape, FramingTypeOK
  <2> QED
    BY <2>3, <2>5, <2>6
<1>6. \A d \in Conns : d # c => unread'[d] = unread[d] /\ flight'[d] = flight[d]
  BY <1>1 DEF Shape, FramingTypeOK
<1>7. ASSUME NEW f \in Fds PROVE FlowAt(f)'
  <2>1. sock[f] \in Conns \cup {NONE} /\ sock'[f] = sock[f] /\ buf'[f] = buf[f]
    BY <1>2 DEF Shape, FramingTypeOK, mainVars
  <2>2. Behind(f)' = Behind(f)
    BY <1>5, <1>6, <2>1 DEF Behind
  <2>3. Stream(f)' = Stream(f) /\ Cur(f)' = Cur(f) /\ Live(f)' = Live(f)
    BY <1>2, <2>1, <2>2 DEF Stream, Cur, Live, mainVars
  <2>4. FlowAt(f) /\ sent' = sent /\ delivered' = delivered /\ inherits' = inherits
    BY <1>2 DEF FlowInv
  <2> QED
    BY <2>3, <2>4, FlowSame
<1>8. HandedSent'
  BY <1>2 DEF FlowInv, HandedSent
<1>9. Flood'
  <2> SUFFICES ASSUME NEW f \in Fds, sock[f] # NONE, Len(buf[f]) + Len(unread'[sock[f]]) > Limit
               PROVE  sock[f] \in flooded' \cup inherits
    BY <1>2 DEF Flood, mainVars
  <2>1. CASE sock[f] = c
    BY <1>2, <2>1
  <2>2. CASE sock[f] # c
    <3>1. unread'[sock[f]] = unread[sock[f]]
      BY <1>6, <2>2 DEF Shape, FramingTypeOK
    <3> QED
      BY <1>2, <3>1 DEF FlowInv, Flood
  <2> QED
    BY <2>1, <2>2
<1> QED
  BY <1>7, <1>8, <1>9 DEF FlowInv

LEMMA FlowHungUp ==
  ASSUME Shape, FlowInv, NEW c \in Conns, HungUp(c)
  PROVE  FlowInv'
<1>1. /\ fin' = fin \cup {c} /\ flight' = [flight EXCEPT ![c] = <<>>]
      /\ UNCHANGED <<sent, sock, unread, accepted, mainVars, queue, history>>
  BY DEF HungUp
<1>2. /\ flight'[c] = <<>> /\ \A d \in Conns : d # c => flight'[d] = flight[d]
      /\ buf' = buf /\ parsing' = parsing /\ delivered' = delivered /\ inherits' = inherits
      /\ flooded' = flooded
  BY <1>1 DEF Shape, FramingTypeOK, mainVars, history
<1>3. ASSUME NEW f \in Fds PROVE FlowAt(f)'
  <2>1. FlowAt(f) /\ Cur(f)' = Cur(f) /\ (Live(f)' => Live(f))
    BY <1>1, <1>2 DEF FlowInv, Cur, Live
  <2>2. CASE sock[f] # c
    <3>1. Behind(f)' = Behind(f)
      BY <1>1, <1>2, <2>2 DEF Behind, Shape, FramingTypeOK
    <3>2. Stream(f)' = Stream(f)
      BY <1>2, <3>1 DEF Stream
    <3> QED
      BY <1>1, <1>2, <2>1, <3>2, FlowSame
  <2>3. CASE sock[f] = c
    <3>1. Cur(f)' = c /\ ~Live(f)'
      BY <1>1, <2>1, <2>3, CurIsConn, NoConnIsNone DEF Live
    <3>2. PICK b \in Seq(Unit), x \in Seq(Unit), y \in Seq(Unit) :
             b = buf[f] /\ x = unread[c] /\ y = flight[c]
      BY DEF Shape, FramingTypeOK
    <3>3. PICK t \in Seq(Unit) : t = b \o x
      BY ConcatProperties
    <3>4. Stream(f)' = t
      <4>1. x \o <<>> = x
        BY ConcatEmptySeq
      <4>2. Behind(f)' = x
        BY <1>1, <1>2, <2>3, <3>2, <4>1, NoConnIsNone DEF Behind
      <4> QED
        BY <1>2, <3>2, <3>3, <4>2 DEF Stream
    <3>5. Stream(f) = t \o y
      <4>1. Behind(f) = x \o y
        BY <2>3, <3>2, NoConnIsNone DEF Behind
      <4>2. Cat(b, Cat(x, y)) = Cat(Cat(b, x), y)
        BY CatAssociative
      <4>3. b \o (x \o y) = (b \o x) \o y
        BY <4>2 DEF Cat
      <4> QED
        BY <3>2, <3>3, <4>1, <4>3 DEF Stream
    <3>6. Len(t) <= Len(t \o y) /\ \A i \in 1 .. Len(t) : t[i] = (t \o y)[i]
      BY ConcatPrefix
    <3>7. /\ Stream(f)' \in Seq(Unit) /\ Len(Stream(f)') <= Len(Stream(f))
          /\ \A i \in 1 .. Len(Stream(f)') : Stream(f)'[i] = Stream(f)[i]
      BY <3>4, <3>5, <3>6
    <3> QED
      BY <1>1, <1>2, <2>1, <3>1, <3>7, FlowPrefix
  <2> QED
    BY <2>2, <2>3
<1>4. HandedSent' /\ Flood'
  BY <1>1, <1>2 DEF FlowInv, HandedSent, Flood
<1> QED
  BY <1>3, <1>4 DEF FlowInv

LEMMA FlowAccept ==
  ASSUME Shape, FlowInv, NEW f \in Fds, Accept(f)
  PROVE  FlowInv'
<1> DEFINE new == accepted + 1
<1>1. /\ parsing = Idle /\ sock[f] = NONE /\ accepted < MaxConns
      /\ sock' = [sock EXCEPT ![f] = new]
      /\ inherits' = IF buf[f] # <<>> THEN inherits \cup {new} ELSE inherits
      /\ UNCHANGED <<clientVars, unread, edge, buf, ready, parsing, queue, delivered, kicked, flooded, ended>>
  BY DEF Accept
<1>2. /\ new \in Conns /\ new # NONE /\ new > accepted
      /\ sent[new] = <<>> /\ flight[new] = <<>> /\ unread[new] = <<>> /\ delivered[new] = <<>>
  <2>1. new \in Conns /\ new > accepted /\ new # NONE
    BY <1>1, BoundsAssumption DEF Shape, FramingTypeOK, Conns, NONE
  <2> QED
    BY <2>1 DEF Shape, Fresh
<1> HIDE DEF new
<1>3. /\ sock'[f] = new /\ \A g \in Fds : g # f => sock'[g] = sock[g]
      /\ \A g \in Fds : parsing.fd # g /\ parsing'.fd # g
      /\ sent' = sent /\ flight' = flight /\ fin' = fin
  BY <1>1, FdsAssumption DEF Shape, FramingTypeOK, Idle, clientVars
<1>4. ASSUME NEW g \in Fds, g # f PROVE FlowAt(g)'
  <2>1. Behind(g)' = Behind(g)
    BY <1>1, <1>3, <1>4 DEF Behind
  <2>2. Stream(g)' = Stream(g) /\ Cur(g)' = Cur(g) /\ Live(g)' = Live(g)
    BY <1>1, <1>3, <1>4, <2>1 DEF Stream, Cur, Live
  <2>3. FlowAt(g) /\ inherits \subseteq inherits'
    BY <1>1 DEF FlowInv
  <2> QED
    BY <1>1, <1>3, <2>2, <2>3, FlowSame
<1>5. FlowAt(f)'
  <2>1. Behind(f)' = Behind(f) /\ Behind(f) = <<>>
    <3>1. <<>> \o <<>> = <<>>
      BY EmptySeq, ConcatEmptySeq
    <3> QED
      BY <1>1, <1>2, <1>3, <3>1 DEF Behind
  <2>2. Stream(f)' = Stream(f) /\ Stream(f) = buf[f] /\ Cur(f)' = new
    <3>1. buf[f] \o <<>> = buf[f]
      BY ConcatEmptySeq DEF Shape, FramingTypeOK
    <3> QED
      BY <1>1, <1>3, <2>1, <3>1 DEF Stream, Cur
  <2>3. Sorted(Stream(f)')
    BY <2>2 DEF FlowInv, FlowAt
  <2>4. ASSUME Cur(f)' \notin inherits' \cup {NONE}
        PROVE  Sound(Stream(f)', Cur(f)', Live(f)', sent'[Cur(f)'], delivered'[Cur(f)'])
    <3>1. Stream(f)' = <<>> /\ sent'[new] = <<>> /\ delivered'[new] = <<>>
      BY <1>1, <1>2, <1>3, <2>2, <2>4
    <3>2. Len(<<>>) = 0
      BY EmptySeq
    <3>3. \A x : Sound(<<>>, new, x, <<>>, <<>>)
      BY <3>2 DEF Sound, Placed, Complete, Upto
    <3> QED
      BY <2>2, <3>1, <3>3
  <2> QED
    BY <2>3, <2>4 DEF FlowAt, Sorted, Sound, Placed, Stands, Complete, Upto, Items, Size, Before, U
<1>6. HandedSent'
  BY <1>1, <1>3 DEF FlowInv, HandedSent
<1>7. Flood'
  <2> SUFFICES ASSUME NEW g \in Fds, sock'[g] # NONE, Len(buf[g]) + Len(unread[sock'[g]]) > Limit
               PROVE  sock'[g] \in flooded \cup inherits'
    BY <1>1 DEF Flood
  <2>1. CASE g # f
    <3>1. sock'[g] = sock[g] /\ inherits \subseteq inherits'
      BY <1>1, <1>3, <2>1
    <3>2. sock[g] # NONE /\ Len(buf[g]) + Len(unread[sock[g]]) > Limit
      BY <3>1
    <3>3. sock[g] \in flooded \cup inherits
      BY <3>2 DEF FlowInv, Flood
    <3> QED
      BY <3>1, <3>3
  <2>2. CASE g = f
    <3>1. ASSUME buf[f] = <<>> PROVE FALSE
      <4>1. Len(<<>>) = 0
        BY EmptySeq
      <4>2. 0 + 0 > Limit
        BY <1>2, <1>3, <2>2, <3>1, <4>1
      <4> QED
        BY <4>2, SizeAssumption DEF Limit
    <3> QED
      BY <1>1, <1>3, <2>2, <3>1
  <2> QED
    BY <2>1, <2>2
<1> QED
  BY <1>4, <1>5, <1>6, <1>7 DEF FlowInv

(* Closing the socket of one fd number does nothing to the other streams. *)
LEMMA FlowOthers ==
  ASSUME Shape, FlowInv, NEW f \in Fds, NEW g \in Fds, g # f, Forget(f),
         buf'[g] = buf[g], parsing' \in {parsing, Idle},
         UNCHANGED <<sent, fin, delivered, inherits>>
  PROVE  FlowAt(g)'
<1>1. sock'[g] = sock[g] /\ sock[g] \in Conns \cup {NONE}
  BY DEF Forget, Shape, FramingTypeOK
<1>2. Behind(g)' = Behind(g)
  <2>1. CASE sock[g] = NONE
    BY <1>1, <2>1 DEF Behind
  <2>2. CASE sock[g] # NONE
    <3>1. sock[g] # sock[f]
      BY <2>2 DEF Shape, Own
    <3>2. unread'[sock[g]] = unread[sock[g]] /\ flight'[sock[g]] = flight[sock[g]]
      BY <1>1, <2>2, <3>1 DEF Forget
    <3> QED
      BY <1>1, <3>2 DEF Behind
  <2> QED
    BY <2>1, <2>2
<1>3. Stream(g)' = Stream(g)
  BY <1>2 DEF Stream
<1>4. Cur(g)' \in {Cur(g), NONE} /\ (Cur(g)' # NONE /\ Live(g)' => Live(g))
  <2>1. sock[g] \in {NONE, Cur(g)}
    BY CurIsConn
  <2>2. Cur(g)' \in {Cur(g), sock[g]}
    BY <1>1, FdsAssumption DEF Cur, Idle
  <2> QED
    BY <1>1, <2>1, <2>2 DEF Live
<1>5. FlowAt(g)
  BY DEF FlowInv
<1> QED
  BY <1>3, <1>4, <1>5, FlowSame

LEMMA FloodForget ==
  ASSUME Shape, FlowInv, NEW f \in Fds, Forget(f), UNCHANGED <<flooded, inherits>>,
         \A g \in Fds : g # f => buf'[g] = buf[g]
  PROVE  Flood'
<1> SUFFICES ASSUME NEW g \in Fds, sock'[g] # NONE, Len(buf'[g]) + Len(unread'[sock'[g]]) > Limit
             PROVE  sock'[g] \in flooded \cup inherits
  BY DEF Flood
<1>1. g # f /\ sock'[g] = sock[g] /\ sock[g] \in Conns
  BY DEF Forget, Shape, FramingTypeOK
<1>2. sock[g] # sock[f] /\ buf'[g] = buf[g]
  BY <1>1 DEF Shape, Own
<1>3. unread'[sock[g]] = unread[sock[g]]
  BY <1>1, <1>2 DEF Forget
<1> QED
  BY <1>1, <1>2, <1>3 DEF FlowInv, Flood

LEMMA FlowKick ==
  ASSUME Shape, FlowInv, NEW f \in Fds, Kick(f)
  PROVE  FlowInv'
<1>1. /\ Forget(f)
      /\ UNCHANGED <<sent, fin, accepted, mainVars, queue, delivered, inherits, flooded, ended>>
  BY DEF Kick
<1>2. buf' = buf /\ parsing' = parsing
  BY <1>1 DEF mainVars
<1>3. ASSUME NEW g \in Fds, g # f PROVE FlowAt(g)'
  BY <1>1, <1>2, <1>3, FlowOthers
<1>4. FlowAt(f)'
  <2>1. sock'[f] = NONE
    BY <1>1 DEF Forget, Shape, FramingTypeOK
  <2>2. Stream(f)' = buf[f] /\ buf[f] \in Seq(Unit) /\ Behind(f) \in Seq(Unit)
    <3>1. buf[f] \in Seq(Unit) /\ Behind(f) \in Seq(Unit)
      BY StreamType, UnitsAreUnits, SeqMonotonic
    <3>2. buf[f] \o <<>> = buf[f]
      BY <3>1, ConcatEmptySeq
    <3> QED
      BY <1>2, <2>1, <3>1, <3>2 DEF Stream, Behind
  <2>3. /\ Len(Stream(f)') <= Len(Stream(f))
        /\ \A i \in 1 .. Len(Stream(f)') : Stream(f)'[i] = Stream(f)[i]
    BY <2>2, StreamType
  <2>4. Cur(f)' \in {Cur(f), NONE} /\ (Cur(f)' # NONE => ~Live(f)')
    BY <1>2, <2>1 DEF Cur, Live
  <2>5. FlowAt(f)
    BY DEF FlowInv
  <2> QED
    BY <1>1, <2>2, <2>3, <2>4, <2>5, FlowPrefix
<1>5. HandedSent'
  BY <1>1 DEF FlowInv, HandedSent
<1>6. Flood'
  BY <1>1, <1>2, FloodForget
<1> QED
  BY <1>3, <1>4, <1>5, <1>6 DEF FlowInv

LEMMA FlowDisconnect ==
  ASSUME Shape, FlowInv, NEW f \in Fds, Disconnect(f)
  PROVE  FlowInv'
<1>1. /\ Forget(f) /\ buf' = [buf EXCEPT ![f] = <<>>] /\ parsing' = Idle
      /\ UNCHANGED <<sent, fin, accepted, queue, delivered, kicked, inherits, flooded>>
  BY DEF Disconnect
<1>2. buf'[f] = <<>> /\ \A g \in Fds : g # f => buf'[g] = buf[g]
  BY <1>1 DEF Shape, FramingTypeOK
<1>3. ASSUME NEW g \in Fds, g # f PROVE FlowAt(g)'
  BY <1>1, <1>2, <1>3, FlowOthers
<1>4. FlowAt(f)'
  <2>1. sock'[f] = NONE
    BY <1>1 DEF Forget, Shape, FramingTypeOK
  <2>2. <<>> \o <<>> = <<>> /\ Len(<<>>) = 0
    BY EmptySeq, ConcatEmptySeq
  <2>3. Stream(f)' = <<>> /\ Cur(f)' = NONE
    BY <1>1, <1>2, <2>1, <2>2, FdsAssumption DEF Stream, Behind, Cur, Idle
  <2> QED
    BY <2>2, <2>3 DEF FlowAt, Sorted
<1>5. HandedSent'
  BY <1>1 DEF FlowInv, HandedSent
<1>6. Flood'
  BY <1>1, <1>2, FloodForget
<1> QED
  BY <1>3, <1>4, <1>5, <1>6 DEF FlowInv

LEMMA FlowRead ==
  ASSUME Shape, FlowInv, NEW f \in Fds, Read(f)
  PROVE  FlowInv'
<1>1. PICK c \in Conns : c = sock[f] /\ c # NONE
  BY DEF Read, Shape, FramingTypeOK
<1>2. /\ parsing = Idle /\ Len(buf[f]) + Len(unread[c]) <= Limit
      /\ buf' = [buf EXCEPT ![f] = buf[f] \o unread[c]]
      /\ unread' = [unread EXCEPT ![c] = <<>>]
      /\ parsing' = [fd |-> f, conn |-> c]
      /\ UNCHANGED <<clientVars, sock, edge, accepted, known, queue, history>>
  BY <1>1 DEF Read
<1>3. /\ buf'[f] = buf[f] \o unread[c] /\ unread'[c] = <<>>
      /\ \A g \in Fds : g # f => buf'[g] = buf[g]
      /\ \A d \in Conns : d # c => unread'[d] = unread[d]
      /\ flight' = flight /\ sock' = sock /\ sent' = sent /\ fin' = fin /\ delivered' = delivered
      /\ inherits' = inherits /\ flooded' = flooded
  BY <1>2 DEF Shape, FramingTypeOK, clientVars, history
<1>4. buf[f] \in Seq(Unit) /\ unread[c] \in Seq(Unit) /\ flight[c] \in Seq(Unit)
  BY DEF Shape, FramingTypeOK
<1>5. ASSUME NEW g \in Fds PROVE Stream(g)' = Stream(g)
  <2>1. CASE g = f
    <3>1. Cat(buf[f], Cat(unread[c], flight[c])) = Cat(Cat(buf[f], unread[c]), flight[c])
      BY <1>4, CatAssociative
    <3>2. buf[f] \o (unread[c] \o flight[c]) = (buf[f] \o unread[c]) \o flight[c]
      BY <3>1 DEF Cat
    <3>3. <<>> \o flight[c] = flight[c]
      BY <1>4, ConcatEmptySeq
    <3>4. Behind(f) = unread[c] \o flight[c] /\ Behind(f)' = flight[c]
      BY <1>1, <1>3, <3>3 DEF Behind
    <3> QED
      BY <1>3, <2>1, <3>2, <3>4 DEF Stream
  <2>2. CASE g # f
    <3>1. sock[g] # c /\ sock[g] \in Conns \cup {NONE}
      BY <1>1, <2>2 DEF Shape, Own, FramingTypeOK
    <3>2. Behind(g)' = Behind(g)
      BY <1>3, <3>1 DEF Behind
    <3> QED
      BY <1>3, <2>2, <3>2 DEF Stream
  <2> QED
    BY <2>1, <2>2
<1>6. ASSUME NEW g \in Fds PROVE Cur(g)' = Cur(g) /\ Live(g)' = Live(g)
  BY <1>1, <1>2, <1>3, FdsAssumption DEF Cur, Live, Idle
<1>7. ASSUME NEW g \in Fds PROVE FlowAt(g)'
  <2>1. FlowAt(g)
    BY DEF FlowInv
  <2> QED
    BY <1>3, <1>5, <1>6, <2>1, FlowSame
<1>8. HandedSent'
  BY <1>3 DEF FlowInv, HandedSent
<1>9. Flood'
  <2> SUFFICES ASSUME NEW g \in Fds, sock[g] # NONE, Len(buf'[g]) + Len(unread'[sock[g]]) > Limit
               PROVE  sock[g] \in flooded \cup inherits
    BY <1>3 DEF Flood
  <2>1. CASE g = f
    <3>1. PICK m \in Nat, n \in Nat : m = Len(buf[f]) /\ n = Len(unread[c])
      BY <1>4, LenProperties
    <3>2. Len(buf[f] \o unread[c]) = m + n
      BY <1>4, <3>1, ConcatProperties
    <3>3. Len(buf'[f]) = m + n /\ Len(unread'[c]) = 0
      BY <1>3, <3>2, EmptySeq
    <3>4. m + n <= Limit /\ Limit \in Int
      <4>1. Len(buf[f]) + Len(unread[c]) <= Limit
        BY <1>2
      <4>2. Limit \in Int
        BY SizeAssumption DEF Limit
      <4> QED
        BY <3>1, <4>1, <4>2
    <3>5. (m + n) + 0 > Limit
      BY <1>1, <2>1, <3>3
    <3> QED
      BY <3>4, <3>5
  <2>2. CASE g # f
    <3>1. sock[g] # c /\ sock[g] \in Conns
      BY <1>1, <2>2 DEF Shape, Own, FramingTypeOK
    <3> QED
      BY <1>3, <2>2, <3>1 DEF FlowInv, Flood
  <2> QED
    BY <2>1, <2>2
<1> QED
  BY <1>7, <1>8, <1>9 DEF FlowInv

(* The epoll thread is told of events or gives a buffer up, a worker takes an *)
(* item, or nothing happens to the wire.                                      *)
LEMMA FlowStays ==
  ASSUME Shape, FlowInv, parsing' \in {parsing, Idle},
         UNCHANGED <<sock, sent, flight, unread, fin, buf, delivered, inherits, flooded>>
  PROVE  FlowInv'
<1>1. ASSUME NEW g \in Fds PROVE FlowAt(g)'
  <2>1. Stream(g)' = Stream(g)
    BY DEF Stream, Behind
  <2>2. sock[g] \in {NONE, Cur(g)}
    BY CurIsConn
  <2>3. Cur(g)' \in {Cur(g), sock[g]}
    BY FdsAssumption DEF Cur, Idle
  <2>4. Cur(g)' \in {Cur(g), NONE} /\ (Cur(g)' # NONE /\ Live(g)' => Live(g))
    BY <2>2, <2>3 DEF Live
  <2>5. FlowAt(g)
    BY DEF FlowInv
  <2> QED
    BY <2>1, <2>4, <2>5, FlowSame
<1>2. HandedSent' /\ Flood'
  BY DEF FlowInv, HandedSent, Flood
<1> QED
  BY <1>1, <1>2 DEF FlowInv

(* A frame is cut out of the buffer. *)
LEMMA DropStream ==
  ASSUME Shape, NEW f \in Fds, NEW n \in Nat, n <= Len(buf[f]), Drop(f, n),
         UNCHANGED <<sock, unread, flight>>
  PROVE  /\ Stream(f)' = SubSeq(Stream(f), n + 1, Len(Stream(f)))
         /\ \A g \in Fds : g # f => Stream(g)' = Stream(g)
<1>1. buf'[f] = SubSeq(buf[f], n + 1, Len(buf[f])) /\ \A g \in Fds : g # f => buf'[g] = buf[g]
  BY DEF Drop, Shape, FramingTypeOK
<1>2. \A g \in Fds : Behind(g)' = Behind(g)
  BY DEF Behind
<1>3. buf[f] \in Seq(SentUnits) /\ Behind(f) \in Seq(SentUnits)
  BY StreamType
<1>4. SubSeq(buf[f], n + 1, Len(buf[f])) \o Behind(f)
        = SubSeq(buf[f] \o Behind(f), n + 1, Len(buf[f] \o Behind(f)))
  BY <1>3, DropConcat
<1> QED
  BY <1>1, <1>2, <1>4 DEF Stream

\* What the epoll thread finds at the beginning of a buffer nobody else has used.
LEMMA FrameAtHead ==
  ASSUME Shape, NEW f \in Fds, FlowAt(f), Cur(f) \notin inherits \cup {NONE},
         Len(buf[f]) >= HeaderSize
  PROVE  LET c == Cur(f)
             k == Stream(f)[1].frame
         IN  /\ Stream(f) # <<>> /\ k \in 1 .. Len(sent[c]) /\ c \in Conns
             /\ Sound(Stream(f), c, Live(f), sent[c], delivered[c])
             /\ Header(buf[f]) = {sent[c][k].len}
             /\ \A q \in 1 .. Size(sent[c], k) : q <= Len(buf[f]) => buf[f][q] = U(c, k, q)
<1>1. PICK c \in Conns : c = Cur(f)
  BY CurIsConn
<1>2. PICK s \in Seq(Unit) : s = Stream(f)
  BY StreamType
<1>3. Sound(s, c, Live(f), sent[c], delivered[c]) /\ sent[c] \in Seq(Frame)
  BY <1>1, <1>2 DEF FlowAt, Shape, FramingTypeOK
<1>4. /\ Len(buf[f]) \in Nat /\ Len(buf[f]) <= Len(s) /\ s # <<>>
      /\ \A i \in 1 .. Len(buf[f]) : s[i] = buf[f][i]
  <2>1. /\ Len(buf[f]) \in Nat /\ Len(buf[f]) <= Len(s)
        /\ \A i \in 1 .. Len(buf[f]) : s[i] = buf[f][i]
    BY <1>2, StreamType
  <2>2. Len(s) \in Nat
    BY LenProperties
  <2>3. Len(s) # 0
    BY <2>1, <2>2, SizeAssumption
  <2> QED
    BY <2>1, <2>3, EmptySeq
<1>5. PICK k \in 1 .. Len(sent[c]) :
         /\ k = s[1].frame
         /\ \A q \in 1 .. Size(sent[c], k) : q <= Len(s) => s[q] = U(c, k, q)
  BY <1>3, <1>4, FirstUnit DEF Sound
<1>6. /\ Size(sent[c], k) \in Nat /\ HeaderSize <= Size(sent[c], k)
      /\ HeaderSize \in Nat \ {0}
  BY <1>3, SizeIsNat, SizeAssumption
<1>7. ASSUME NEW q \in 1 .. Size(sent[c], k), q <= Len(buf[f]) PROVE buf[f][q] = U(c, k, q)
  <2>1. q \in 1 .. Len(buf[f]) /\ q <= Len(s) /\ q \in Nat
    <3>1. Len(s) \in Nat
      BY LenProperties
    <3> QED
      BY <1>4, <1>6, <1>7, <3>1
  <2> QED
    BY <1>4, <1>5, <2>1
<1>8. Header(buf[f]) = {sent[c][k].len}
  <2>1. ASSUME NEW i \in 1 .. HeaderSize PROVE buf[f][i] = U(c, k, i)
    <3>1. i \in 1 .. Size(sent[c], k) /\ i <= Len(buf[f])
      BY <1>4, <1>6
    <3> QED
      BY <1>7, <3>1
  <2>2. buf[f][1] = U(c, k, 1) /\ U(c, k, 1).conn = c /\ U(c, k, 1).frame = k
        /\ \A i \in 1 .. HeaderSize : U(c, k, i) = [U(c, k, 1) EXCEPT !.pos = i]
    <3>1. 1 \in 1 .. HeaderSize
      BY <1>6
    <3> QED
      BY <2>1, <3>1 DEF U
  <2>3. \A i \in 1 .. HeaderSize : buf[f][i] = [buf[f][1] EXCEPT !.pos = i]
    BY <2>1, <2>2
  <2> QED
    BY <2>2, <2>3 DEF Header
<1>9. Len(buf[f]) \in Nat
  BY <1>4
<1> QED
  BY <1>1, <1>2, <1>3, <1>4, <1>5, <1>7, <1>8

LEMMA SortedDrop ==
  ASSUME NEW s \in Seq(Unit), NEW n \in Nat, n <= Len(s), Sorted(s)
  PROVE  Sorted(SubSeq(s, n + 1, Len(s)))
<1>1. /\ SubSeq(s, n + 1, Len(s)) \in Seq(Unit)
      /\ Len(SubSeq(s, n + 1, Len(s))) + n = Len(s)
      /\ \A i \in 1 .. Len(SubSeq(s, n + 1, Len(s))) : SubSeq(s, n + 1, Len(s))[i] = s[i + n]
  BY RestOfSeq
<1>2. PICK t \in Seq(Unit) : /\ t = SubSeq(s, n + 1, Len(s)) /\ Len(t) + n = Len(s)
                             /\ \A i \in 1 .. Len(t) : t[i] = s[i + n]
  BY <1>1
<1>3. Sorted(t)
  BY <1>2, SortedRest
<1> QED
  BY <1>2, <1>3

\* ds grows by what the frame dropped makes of it.
LEMMA FlowDrop ==
  ASSUME Shape, FlowInv, NEW f \in Fds, parsing.fd = f, NEW n \in Nat, n <= Len(buf[f]),
         HeaderSize <= n, Drop(f, n),
         UNCHANGED <<clientVars, kernelVars, parsing, inherits, flooded>>,
         delivered' \in [Conns -> Seq({0} \cup FrameNos)],
         \A c \in Conns : c # parsing.conn => delivered'[c] = delivered[c],
         HandedSent',
         Cur(f) \notin inherits \cup {NONE} =>
            /\ n = Size(sent[Cur(f)], Stream(f)[1].frame)
            /\ Upto(Stream(f)[1].frame + 1, sent[Cur(f)], delivered'[Cur(f)])
  PROVE  FlowInv'
<1>1. /\ sock' = sock /\ unread' = unread /\ flight' = flight /\ sent' = sent /\ fin' = fin
      /\ parsing' = parsing
  BY DEF clientVars, kernelVars
<1>2. /\ Stream(f)' = SubSeq(Stream(f), n + 1, Len(Stream(f)))
      /\ \A g \in Fds : g # f => Stream(g)' = Stream(g)
  BY <1>1, DropStream
<1>3. \A g \in Fds : Cur(g)' = Cur(g) /\ Live(g)' = Live(g) /\ FlowAt(g)
  BY <1>1 DEF Cur, Live, FlowInv
<1>4. Cur(f) = parsing.conn /\ Cur(f) \in Conns /\ Cur(f) # NONE
  BY CutWhere, NoConnIsNone DEF Cur
<1>5. ASSUME NEW g \in Fds, g # f PROVE FlowAt(g)'
  <2>1. CASE Cur(g) = NONE
    <3>1. Sorted(Stream(g)') /\ Cur(g)' = NONE
      BY <1>2, <1>3, <1>5, <2>1 DEF FlowAt
    <3> QED
      BY <3>1 DEF FlowAt, Sorted, Before
  <2>2. CASE Cur(g) # NONE
    <3>1. Cur(g) # Cur(f)
      <4>1. Cur(g) = sock[g]
        BY <1>5 DEF Cur
      <4> QED
        BY <1>4, <1>5, <4>1, CurOwn
    <3>2. Cur(g) \in Conns
      BY <2>2, CurIsConn
    <3>3. delivered'[Cur(g)] = delivered[Cur(g)]
      BY <1>4, <3>1, <3>2
    <3> QED
      BY <1>1, <1>2, <1>3, <1>5, <3>3, FlowSame
  <2> QED
    BY <2>1, <2>2
<1>6. FlowAt(f)'
  <2>1. Stream(f) \in Seq(Unit) /\ n <= Len(Stream(f))
    <3>1. Stream(f) \in Seq(Unit) /\ Len(buf[f]) <= Len(Stream(f)) /\ Len(buf[f]) \in Nat
          /\ Len(Stream(f)) \in Nat
      BY StreamType, LenProperties
    <3> QED
      BY <3>1
  <2>2. Sorted(Stream(f)')
    BY <1>2, <1>3, <2>1, SortedDrop DEF FlowAt
  <2>3. ASSUME Cur(f)' \notin inherits' \cup {NONE}
        PROVE  Sound(Stream(f)', Cur(f)', Live(f)', sent'[Cur(f)'], delivered'[Cur(f)'])
    <3>1. Cur(f) \notin inherits \cup {NONE}
      BY <1>3, <2>3
    <3>2. Len(buf[f]) >= HeaderSize
      BY SizeAssumption, StreamType
    <3>3. /\ Stream(f) # <<>> /\ sent[Cur(f)] \in Seq(Frame)
          /\ Sound(Stream(f), Cur(f), Live(f), sent[Cur(f)], delivered[Cur(f)])
      BY <1>4, <3>1, <3>2, <1>3, FrameAtHead DEF Shape, FramingTypeOK
    <3>4. Sound(SubSeq(Stream(f), n + 1, Len(Stream(f))), Cur(f), Live(f), sent[Cur(f)], delivered'[Cur(f)])
      BY <2>1, <3>1, <3>3, SoundDrop
    <3> QED
      BY <1>1, <1>2, <1>3, <3>4
  <2> QED
    BY <2>2, <2>3 DEF FlowAt, Sorted, Sound, Placed, Stands, Complete, Upto, Items, Size, Before, U
<1>7. Flood'
  <2> SUFFICES ASSUME NEW g \in Fds, sock[g] # NONE, Len(buf'[g]) + Len(unread[sock[g]]) > Limit
               PROVE  sock[g] \in flooded \cup inherits
    BY <1>1 DEF Flood
  <2>1. unread[sock[g]] \in Seq(Unit) /\ buf[g] \in Seq(Unit) /\ buf[f] \in Seq(Unit)
    BY DEF Shape, FramingTypeOK
  <2>2. Len(buf'[g]) \in Nat /\ Len(buf'[g]) <= Len(buf[g])
    <3>1. CASE g = f
      <4>1. buf'[f] = SubSeq(buf[f], n + 1, Len(buf[f]))
        BY DEF Drop, Shape, FramingTypeOK
      <4>2. Len(SubSeq(buf[f], n + 1, Len(buf[f]))) = Len(buf[f]) - n
        BY <2>1, RestOfSeq
      <4>3. Len(buf[f]) \in Nat
        BY <2>1, LenProperties
      <4> QED
        BY <3>1, <4>1, <4>2, <4>3
    <3>2. CASE g # f
      <4>1. buf'[g] = buf[g]
        BY <3>2 DEF Drop, Shape, FramingTypeOK
      <4> QED
        BY <2>1, <4>1, LenProperties
    <3> QED
      BY <3>1, <3>2
  <2>3. Len(buf[g]) \in Nat /\ Len(unread[sock[g]]) \in Nat
    BY <2>1, LenProperties
  <2>4. Len(buf[g]) + Len(unread[sock[g]]) > Limit
    <3>1. PICK lim \in Int : lim = Limit
      BY SizeAssumption DEF Limit
    <3>2. PICK x \in Nat, y \in Nat, z \in Nat :
             x = Len(buf'[g]) /\ y = Len(buf[g]) /\ z = Len(unread[sock[g]]) /\ x <= y
      BY <2>2, <2>3
    <3>3. x + z > lim
      BY <3>1, <3>2
    <3>4. x <= y
      BY <3>2
    <3>5. y + z > lim
      BY <3>3, <3>4
    <3> QED
      BY <3>1, <3>2, <3>5
  <2> QED
    BY <2>4 DEF FlowInv, Flood
<1> QED
  BY <1>5, <1>6, <1>7 DEF FlowInv

LEMMA FlowSkips ==
  ASSUME Shape, FlowInv, NEW f \in Fds, ExtractSkips(f)
  PROVE  FlowInv'
<1>1. /\ parsing.fd = f /\ Len(buf[f]) >= HeaderSize /\ 0 \in Header(buf[f]) /\ Drop(f, HeaderSize)
      /\ UNCHANGED <<clientVars, kernelVars, known, ready, parsing, queue, history>>
  BY DEF ExtractSkips, At
<1>2. HeaderSize \in Nat /\ HeaderSize <= Len(buf[f]) /\ HeaderSize <= HeaderSize
  BY <1>1, SizeAssumption, StreamType
<1>3. delivered' = delivered /\ inherits' = inherits /\ flooded' = flooded /\ sent' = sent
  BY <1>1 DEF history, clientVars
<1>4. HandedSent'
  BY <1>3 DEF FlowInv, HandedSent
<1>5. ASSUME Cur(f) \notin inherits \cup {NONE}
      PROVE  /\ HeaderSize = Size(sent[Cur(f)], Stream(f)[1].frame)
             /\ Upto(Stream(f)[1].frame + 1, sent[Cur(f)], delivered'[Cur(f)])
  <2>1. PICK c \in Conns : c = Cur(f)
    BY <1>5, CurIsConn
  <2>2. PICK k \in 1 .. Len(sent[c]) :
           /\ k = Stream(f)[1].frame /\ Stream(f) # <<>>
           /\ Sound(Stream(f), c, Live(f), sent[c], delivered[c])
           /\ Header(buf[f]) = {sent[c][k].len}
    BY <1>1, <1>5, <2>1, FrameAtHead DEF FlowInv
  <2>3. sent[c][k].len = 0
    BY <1>1, <2>2
  <2>4. ~Illegal(0) /\ BodySize(0) = 0
    BY SizeAssumption DEF Illegal, BodySize
  <2>5. Size(sent[c], k) = HeaderSize
    BY <2>3, <2>4, SizeAssumption DEF Size
  <2>6. Upto(k, sent[c], delivered[c])
    BY <2>2 DEF Sound
  <2>7. Len(sent[c]) \in Nat
    BY LenProperties DEF Shape, FramingTypeOK
  <2>8. Upto(k + 1, sent[c], delivered[c])
    BY <2>3, <2>4, <2>6, <2>7 DEF Upto
  <2> QED
    BY <1>3, <2>1, <2>2, <2>5, <2>8
<1>6. /\ delivered' \in [Conns -> Seq({0} \cup FrameNos)]
      /\ \A c \in Conns : c # parsing.conn => delivered'[c] = delivered[c]
      /\ UNCHANGED <<clientVars, kernelVars, parsing, inherits, flooded>>
  BY <1>1, <1>3 DEF Shape, FramingTypeOK
<1> QED
  BY <1>1, <1>2, <1>4, <1>5, <1>6, FlowDrop

\* What ExtractRoutes makes of the buffer: the whole of the next frame, or of
\* what is taken for one in a buffer that was inherited.
LEMMA RouteOf ==
  ASSUME Shape, NEW f \in Fds, ExtractRoutes(f)
  PROVE  \E len \in Nat \ {0}, k \in {0} \cup FrameNos :
            /\ len \in Header(buf[f]) /\ ~Illegal(len)
            /\ HeaderSize + len <= Len(buf[f]) /\ HeaderSize + len \in Nat
            /\ k = FrameOf(parsing.conn, SubSeq(buf[f], HeaderSize + 1, HeaderSize + len))
            /\ k # 0 => buf[f][HeaderSize + 1] = U(parsing.conn, k, HeaderSize + 1)
            /\ k <= Len(sent[parsing.conn])
            /\ queue' = Append(queue, [fd |-> f, conn |-> parsing.conn, frame |-> k])
            /\ delivered' = [delivered EXCEPT ![parsing.conn] = Append(@, k)]
            /\ Drop(f, HeaderSize + len)
<1>1. PICK len \in Header(buf[f]) :
         LET c == parsing.conn
             k == FrameOf(c, SubSeq(buf[f], HeaderSize + 1, HeaderSize + len))
         IN
         /\ ~Illegal(len) /\ len > 0 /\ Len(buf[f]) >= HeaderSize + len
         /\ queue' = Append(queue, [fd |-> f, conn |-> c, frame |-> k])
         /\ delivered' = [delivered EXCEPT ![c] = Append(@, k)]
         /\ Drop(f, HeaderSize + len)
  BY DEF ExtractRoutes
<1>2. parsing.fd = f /\ Len(buf[f]) >= HeaderSize
  BY DEF ExtractRoutes, At
<1>3. PICK c \in Conns : c = parsing.conn
  BY <1>2, CutWhere
<1>4. buf[f] \in Seq(SentUnits) /\ Len(buf[f]) \in Nat
  BY StreamType
<1>5. len \in Nat \ {0} /\ HeaderSize + len \in Nat /\ HeaderSize + len <= Len(buf[f])
      /\ HeaderSize \in Nat
  <2>1. len \in Int
    BY <1>2, HeaderIsLength
  <2> QED
    BY <1>1, <1>4, <2>1, SizeAssumption
<1>6. PICK s \in Seq(SentUnits) :
         /\ s = SubSeq(buf[f], HeaderSize + 1, HeaderSize + len)
         /\ s # <<>> /\ s[1] = buf[f][HeaderSize + 1]
  <2>1. \A i \in HeaderSize + 1 .. HeaderSize + len : buf[f][i] \in SentUnits
    BY <1>4, <1>5, ElementOfSeq
  <2>2. /\ SubSeq(buf[f], HeaderSize + 1, HeaderSize + len) \in Seq(SentUnits)
        /\ Len(SubSeq(buf[f], HeaderSize + 1, HeaderSize + len)) =
              IF HeaderSize + 1 <= HeaderSize + len THEN HeaderSize + len - (HeaderSize + 1) + 1 ELSE 0
        /\ \A i \in 1 .. HeaderSize + len - (HeaderSize + 1) + 1 :
              SubSeq(buf[f], HeaderSize + 1, HeaderSize + len)[i] = buf[f][HeaderSize + 1 + i - 1]
    BY <1>5, <2>1, SubSeqProperties
  <2>3. /\ HeaderSize + 1 <= HeaderSize + len /\ HeaderSize + len - (HeaderSize + 1) + 1 # 0
        /\ 1 \in 1 .. HeaderSize + len - (HeaderSize + 1) + 1
        /\ HeaderSize + 1 + 1 - 1 = HeaderSize + 1
    BY <1>5
  <2>4. Len(SubSeq(buf[f], HeaderSize + 1, HeaderSize + len)) # 0
    BY <2>2, <2>3
  <2>5. SubSeq(buf[f], HeaderSize + 1, HeaderSize + len)[1] = buf[f][HeaderSize + 1]
    BY <2>2, <2>3
  <2> QED
    BY <2>2, <2>4, <2>5, EmptySeq
<1>7. /\ FrameOf(c, s) \in {0} \cup FrameNos
      /\ FrameOf(c, s) # 0 => s[1] = U(c, FrameOf(c, s), HeaderSize + 1)
                              /\ FrameOf(c, s) <= Len(sent[c])
  BY <1>6, FrameOfBody
<1>8. Len(sent[c]) \in Nat
  BY LenProperties DEF Shape, FramingTypeOK
<1>9. PICK k \in {0} \cup FrameNos : k = FrameOf(c, s)
  BY <1>7
<1>10. k <= Len(sent[c]) /\ (k # 0 => buf[f][HeaderSize + 1] = U(c, k, HeaderSize + 1))
  BY <1>6, <1>7, <1>8, <1>9
<1>11. /\ len \in Header(buf[f]) /\ ~Illegal(len)
       /\ HeaderSize + len <= Len(buf[f]) /\ HeaderSize + len \in Nat
       /\ k = FrameOf(parsing.conn, SubSeq(buf[f], HeaderSize + 1, HeaderSize + len))
       /\ k # 0 => buf[f][HeaderSize + 1] = U(parsing.conn, k, HeaderSize + 1)
       /\ k <= Len(sent[parsing.conn])
       /\ queue' = Append(queue, [fd |-> f, conn |-> parsing.conn, frame |-> k])
       /\ delivered' = [delivered EXCEPT ![parsing.conn] = Append(@, k)]
       /\ Drop(f, HeaderSize + len)
  <2>1. k = FrameOf(parsing.conn, SubSeq(buf[f], HeaderSize + 1, HeaderSize + len))
    BY <1>3, <1>6, <1>9
  <2>2. k <= Len(sent[parsing.conn]) /\ (k # 0 => buf[f][HeaderSize + 1] = U(parsing.conn, k, HeaderSize + 1))
    BY <1>3, <1>10
  <2>3. /\ queue' = Append(queue, [fd |-> f, conn |-> parsing.conn, frame |-> k])
        /\ delivered' = [delivered EXCEPT ![parsing.conn] = Append(@, k)]
        /\ ~Illegal(len) /\ Drop(f, HeaderSize + len)
    BY <1>1, <2>1
  <2> QED
    BY <1>1, <1>5, <2>1, <2>2, <2>3
<1> QED
  BY <1>5, <1>9, <1>11

\* In a buffer nobody else has used it is the next frame.
LEMMA RoutedIsNext ==
  ASSUME Shape, NEW f \in Fds, FlowAt(f), parsing.fd = f, NEW len \in Nat \ {0},
         NEW c \in Conns, c = parsing.conn, c \notin inherits,
         len \in Header(buf[f]), ~Illegal(len), HeaderSize + len <= Len(buf[f])
  PROVE  LET k == Stream(f)[1].frame IN
         /\ k \in 1 .. Len(sent[c]) /\ k \in FrameNos /\ sent[c][k].len = len
         /\ HeaderSize + len = Size(sent[c], k)
         /\ FrameOf(c, SubSeq(buf[f], HeaderSize + 1, HeaderSize + len)) = k
         /\ Upto(k, sent[c], delivered[c])
<1>1. HeaderSize \in Nat \ {0} /\ Len(buf[f]) \in Nat
  BY StreamType, SizeAssumption
<1>2. c = Cur(f) /\ c # NONE /\ Len(buf[f]) >= HeaderSize
  BY <1>1, NoConnIsNone DEF Cur
<1>3. PICK k \in 1 .. Len(sent[c]) :
         /\ k = Stream(f)[1].frame /\ Stream(f) # <<>>
         /\ Sound(Stream(f), c, Live(f), sent[c], delivered[c])
         /\ Header(buf[f]) = {sent[c][k].len}
         /\ \A q \in 1 .. Size(sent[c], k) : q <= Len(buf[f]) => buf[f][q] = U(c, k, q)
  <2>1. Cur(f) \notin inherits \cup {NONE}
    BY <1>2
  <2>2. LET k == Stream(f)[1].frame IN
        /\ Stream(f) # <<>> /\ k \in 1 .. Len(sent[c])
        /\ Sound(Stream(f), c, Live(f), sent[c], delivered[c])
        /\ Header(buf[f]) = {sent[c][k].len}
        /\ \A q \in 1 .. Size(sent[c], k) : q <= Len(buf[f]) => buf[f][q] = U(c, k, q)
    BY <1>2, <2>1, FrameAtHead
  <2> QED
    BY <2>2
<1>4. sent[c][k].len = len /\ len \in Lengths
  <2>1. sent[c] \in Seq(Frame)
    BY DEF Shape, FramingTypeOK
  <2> QED
    BY <1>3, <2>1, SizeIsNat
<1>5. BodySize(len) = len /\ Size(sent[c], k) = HeaderSize + len
  BY <1>4 DEF Size, BodySize
<1>6. k \in FrameNos
  <2>1. buf[f] \in Seq(Unit) /\ 1 \in 1 .. Len(buf[f])
    BY <1>1, <1>2, StreamType, UnitsAreUnits, SeqMonotonic
  <2>2. buf[f][1] \in Unit /\ Stream(f)[1] = buf[f][1]
    BY <2>1, ElementOfSeq, StreamType
  <2> QED
    BY <1>3, <2>2 DEF Unit
<1>7. \A q \in 1 .. HeaderSize + len : buf[f][q] = U(c, k, q)
  BY <1>1, <1>3, <1>5
<1>8. PICK u \in Seq(Unit) : /\ u = Units(c, k, len) /\ Len(u) = HeaderSize + len
                             /\ \A i \in 1 .. HeaderSize + len : u[i] = U(c, k, i)
  BY <1>4, <1>5, <1>6, UnitsOfFrame
<1>9. ASSUME NEW b, b = buf[f] \/ b = u
      PROVE  /\ SubSeq(b, HeaderSize + 1, HeaderSize + len) \in Seq(Unit)
             /\ Len(SubSeq(b, HeaderSize + 1, HeaderSize + len)) = len
             /\ \A i \in 1 .. len : SubSeq(b, HeaderSize + 1, HeaderSize + len)[i] = U(c, k, HeaderSize + i)
  <2>1. \A q \in 1 .. HeaderSize + len : b[q] = U(c, k, q)
    BY <1>7, <1>8, <1>9
  <2>2. \A q \in 1 .. HeaderSize + len : U(c, k, q) \in Unit
    BY <1>8, ElementOfSeq
  <2>3. \A q \in HeaderSize + 1 .. HeaderSize + len : q \in 1 .. HeaderSize + len
    BY <1>1
  <2>4. \A q \in HeaderSize + 1 .. HeaderSize + len : b[q] \in Unit
    BY <2>1, <2>2, <2>3
  <2>5. /\ SubSeq(b, HeaderSize + 1, HeaderSize + len) \in Seq(Unit)
        /\ Len(SubSeq(b, HeaderSize + 1, HeaderSize + len)) =
              IF HeaderSize + 1 <= HeaderSize + len THEN HeaderSize + len - (HeaderSize + 1) + 1 ELSE 0
        /\ \A i \in 1 .. HeaderSize + len - (HeaderSize + 1) + 1 :
              SubSeq(b, HeaderSize + 1, HeaderSize + len)[i] = b[HeaderSize + 1 + i - 1]
    BY <1>1, <2>4, SubSeqProperties
  <2>6. HeaderSize + len - (HeaderSize + 1) + 1 = len /\ HeaderSize + 1 <= HeaderSize + len
    BY <1>1
  <2>7. \A i \in 1 .. len : HeaderSize + 1 + i - 1 = HeaderSize + i /\ HeaderSize + i \in 1 .. HeaderSize + len
    BY <1>1
  <2> QED
    BY <2>1, <2>5, <2>6, <2>7
<1>10. SubSeq(buf[f], HeaderSize + 1, HeaderSize + len) = SubSeq(u, HeaderSize + 1, HeaderSize + len)
  <2>1. PICK x \in Seq(Unit) : /\ x = SubSeq(buf[f], HeaderSize + 1, HeaderSize + len)
                               /\ Len(x) = len
                               /\ \A i \in 1 .. len : x[i] = U(c, k, HeaderSize + i)
    BY <1>9
  <2>2. PICK y \in Seq(Unit) : /\ y = SubSeq(u, HeaderSize + 1, HeaderSize + len)
                               /\ Len(y) = len
                               /\ \A i \in 1 .. len : y[i] = U(c, k, HeaderSize + i)
    BY <1>9
  <2>3. x = y
    <3>1. Len(x) = Len(y) /\ \A i \in 1 .. Len(x) : x[i] = y[i]
      BY <2>1, <2>2
    <3> QED
      BY <3>1, SeqEqual
  <2> QED
    BY <2>1, <2>2, <2>3
<1>11. SubSeq(buf[f], HeaderSize + 1, HeaderSize + len) = Body(c, k, len)
  BY <1>5, <1>8, <1>10 DEF Body
<1>12. SubSeq(buf[f], HeaderSize + 1, HeaderSize + len)[1] = U(c, k, HeaderSize + 1)
  <2>1. 1 \in 1 .. len
    OBVIOUS
  <2> QED
    BY <1>9, <2>1
<1>13. FrameOf(c, SubSeq(buf[f], HeaderSize + 1, HeaderSize + len)) = k
  <2>1. PICK body : body = SubSeq(buf[f], HeaderSize + 1, HeaderSize + len)
    OBVIOUS
  <2>2. body[1].conn = c /\ body[1].frame = k
    <3>1. body[1] = U(c, k, HeaderSize + 1)
      BY <1>12, <2>1
    <3> QED
      BY <3>1 DEF U
  <2>3. body = Body(c, k, sent[c][k].len)
    BY <1>4, <1>11, <2>1
  <2>4. FrameOf(c, body) = k
    BY <2>2, <2>3 DEF FrameOf
  <2> QED
    BY <2>1, <2>4
<1>14. Upto(k, sent[c], delivered[c])
  BY <1>3 DEF Sound
<1> QED
  BY <1>3, <1>4, <1>5, <1>6, <1>13, <1>14

LEMMA FlowRoutes ==
  ASSUME Shape, FlowInv, NEW f \in Fds, ExtractRoutes(f)
  PROVE  FlowInv'
<1>1. PICK len \in Nat \ {0}, k \in {0} \cup FrameNos :
            /\ len \in Header(buf[f]) /\ ~Illegal(len)
            /\ HeaderSize + len <= Len(buf[f]) /\ HeaderSize + len \in Nat
            /\ k = FrameOf(parsing.conn, SubSeq(buf[f], HeaderSize + 1, HeaderSize + len))
            /\ k <= Len(sent[parsing.conn])
            /\ delivered' = [delivered EXCEPT ![parsing.conn] = Append(@, k)]
            /\ Drop(f, HeaderSize + len)
  BY RouteOf
<1>2. /\ parsing.fd = f /\ Len(buf[f]) >= HeaderSize
      /\ UNCHANGED <<clientVars, kernelVars, known, ready, parsing, kicked, inherits, flooded, ended>>
  BY DEF ExtractRoutes, At
<1>3. PICK c \in Conns : c = parsing.conn /\ c = Cur(f)
  BY <1>2, CutWhere DEF Cur
<1>4. PICK ds \in Seq({0} \cup FrameNos) : ds = delivered[c]
  BY DEF Shape, FramingTypeOK
<1>5. PICK es \in Seq({0} \cup FrameNos) :
         /\ es = delivered'[c] /\ Len(es) = Len(ds) + 1
         /\ \A i \in 1 .. Len(ds) : es[i] = ds[i]
         /\ es[Len(ds) + 1] = k
  <2>1. delivered'[c] = Append(ds, k)
    BY <1>1, <1>3, <1>4 DEF Shape, FramingTypeOK
  <2>2. /\ Append(ds, k) \in Seq({0} \cup FrameNos) /\ Len(Append(ds, k)) = Len(ds) + 1
        /\ \A i \in 1 .. Len(ds) : Append(ds, k)[i] = ds[i]
        /\ Append(ds, k)[Len(ds) + 1] = k
    BY AppendProperties
  <2> QED
    BY <2>1, <2>2
<1>6. /\ delivered' \in [Conns -> Seq({0} \cup FrameNos)]
      /\ \A d \in Conns : d # c => delivered'[d] = delivered[d]
  BY <1>1, <1>3, <1>5 DEF Shape, FramingTypeOK
<1>7. Len(ds) \in Nat
  BY LenProperties
<1>8. HandedSent'
  <2> SUFFICES ASSUME NEW d \in Conns, NEW i \in 1 .. Len(delivered'[d])
               PROVE  delivered'[d][i] <= Len(sent[d])
    BY <1>2 DEF HandedSent, clientVars
  <2>1. CASE d = c
    <3>1. CASE i = Len(ds) + 1
      BY <1>1, <1>3, <1>5, <2>1, <3>1
    <3>2. CASE i # Len(ds) + 1
      <4>1. i \in 1 .. Len(ds)
        BY <1>5, <1>7, <2>1, <3>2
      <4> QED
        BY <1>4, <1>5, <2>1, <4>1 DEF FlowInv, HandedSent
    <3> QED
      BY <3>1, <3>2
  <2>2. CASE d # c
    BY <1>6, <2>2 DEF FlowInv, HandedSent
  <2> QED
    BY <2>1, <2>2
<1>9. ASSUME Cur(f) \notin inherits \cup {NONE}
      PROVE  /\ HeaderSize + len = Size(sent[Cur(f)], Stream(f)[1].frame)
             /\ Upto(Stream(f)[1].frame + 1, sent[Cur(f)], delivered'[Cur(f)])
  <2>1. /\ k = Stream(f)[1].frame /\ k \in 1 .. Len(sent[c]) /\ sent[c][k].len = len
        /\ HeaderSize + len = Size(sent[c], k)
        /\ Upto(k, sent[c], delivered[c])
    BY <1>1, <1>2, <1>3, <1>9, RoutedIsNext DEF FlowInv
  <2>2. Items(es) = Items(ds) \cup {k}
    <3>1. Items(es) \subseteq Items(ds) \cup {k}
      <4> SUFFICES ASSUME NEW i \in 1 .. Len(ds) + 1 PROVE es[i] \in Items(ds) \cup {k}
        BY <1>5 DEF Items
      <4>1. i \in 1 .. Len(ds) \/ i = Len(ds) + 1
        BY <1>7
      <4> QED
        BY <1>5, <4>1 DEF Items
    <3>2. Items(ds) \subseteq Items(es)
      <4> SUFFICES ASSUME NEW i \in 1 .. Len(ds) PROVE ds[i] \in Items(es)
        BY DEF Items
      <4>1. i \in 1 .. Len(es) /\ es[i] = ds[i]
        BY <1>5, <1>7
      <4> QED
        BY <4>1 DEF Items
    <3>3. k \in Items(es)
      <4>1. Len(ds) + 1 \in 1 .. Len(es)
        BY <1>5, <1>7
      <4> QED
        BY <1>5, <4>1 DEF Items
    <3> QED
      BY <3>1, <3>2, <3>3
  <2>3. Len(sent[c]) \in Nat
    BY LenProperties DEF Shape, FramingTypeOK
  <2>4. ASSUME NEW j \in 1 .. Len(sent[c])
        PROVE  IF j < k + 1 THEN ~Illegal(sent[c][j].len) /\ (sent[c][j].len # 0 => j \in Items(es))
               ELSE j \notin Items(es)
    <3>1. CASE j < k
      BY <1>4, <2>1, <2>2, <2>3, <3>1 DEF Upto
    <3>2. CASE j = k
      BY <1>1, <2>1, <2>2, <2>3, <3>2
    <3>3. CASE j > k
      <4>1. ~(j < k) /\ ~(j < k + 1) /\ j # k
        BY <2>1, <2>3, <3>3
      <4> QED
        BY <1>4, <2>1, <2>2, <4>1 DEF Upto
    <3> QED
      BY <2>1, <2>3, <3>1, <3>2, <3>3
  <2>5. Upto(k + 1, sent[c], es)
    BY <2>4 DEF Upto
  <2> QED
    BY <1>3, <1>5, <2>1, <2>5
<1>10. HeaderSize <= HeaderSize + len
  BY <1>1, SizeAssumption
<1>11. UNCHANGED <<clientVars, kernelVars, parsing, inherits, flooded>>
  BY <1>2
<1> QED
  BY <1>1, <1>2, <1>3, <1>6, <1>8, <1>9, <1>10, <1>11, FlowDrop

LEMMA FlowStep == Shape /\ FlowInv /\ FramingStep => FlowInv'
<1> SUFFICES ASSUME Shape, FlowInv, FramingStep PROVE FlowInv'
  OBVIOUS
<1>1. ASSUME NEW c \in Conns, NEW frame \in Frame, Send(c, frame) PROVE FlowInv'
  BY <1>1, FlowSend
<1>2. ASSUME NEW c \in Conns, Arrive(c) PROVE FlowInv'
  BY <1>2, FlowArrive
<1>3. ASSUME NEW c \in Conns, HungUp(c) PROVE FlowInv'
  BY <1>3, FlowHungUp
<1>4. ASSUME NEW f \in Fds, Accept(f) PROVE FlowInv'
  BY <1>4, FlowAccept
<1>5. ASSUME NEW f \in Fds, Kick(f) PROVE FlowInv'
  BY <1>5, FlowKick
<1>6. ASSUME NEW f \in Fds, ReadEnds(f) \/ ExtractEnds(f) PROVE FlowInv'
  BY <1>6, FlowDisconnect DEF ReadEnds, ExtractEnds
<1>7. ASSUME NEW f \in Fds, Read(f) PROVE FlowInv'
  BY <1>7, FlowRead
<1>8. ASSUME NEW f \in Fds, ExtractSkips(f) PROVE FlowInv'
  BY <1>8, FlowSkips
<1>9. ASSUME NEW f \in Fds, ExtractRoutes(f) PROVE FlowInv'
  BY <1>9, FlowRoutes
<1>10. CASE EpollWait \/ (\E f \in Fds : ExtractWaits(f)) \/ TakeItem \/ UNCHANGED framingVars
  <2>1. /\ parsing' \in {parsing, Idle}
        /\ UNCHANGED <<sock, sent, flight, unread, fin, buf, delivered, inherits, flooded>>
    BY <1>10 DEF EpollWait, ExtractWaits, TakeItem, framingVars, clientVars, kernelVars, mainVars, history
  <2> QED
    BY <2>1, FlowStays
<1> QED
  BY <1>1, <1>2, <1>3, <1>4, <1>5, <1>6, <1>7, <1>8, <1>9, <1>10 DEF FramingStep, Main

LEMMA InitFlow == FramingInit => FlowInv
<1> SUFFICES ASSUME FramingInit PROVE FlowInv
  OBVIOUS
<1>1. \A f \in Fds : Stream(f) = <<>> /\ Cur(f) = NONE
  <2>1. <<>> \o <<>> = <<>>
    BY EmptySeq, ConcatEmptySeq
  <2> QED
    BY <2>1 DEF FramingInit, Stream, Behind, Cur, Idle, NONE
<1>2. \A f \in Fds : FlowAt(f)
  <2>1. Sorted(<<>>)
    BY DEF Sorted
  <2> QED
    BY <1>1, <2>1 DEF FlowAt
<1>3. HandedSent
  BY DEF FramingInit, HandedSent
<1>4. Flood
  BY DEF FramingInit, Flood
<1> QED
  BY <1>2, <1>3, <1>4 DEF FlowInv

----------------------------------------------------------------------------
(* Framing implements FrameChannel.                                            *)
KindsOf(c) == [k \in 1 .. Len(sent[c]) |-> Kind(sent[c][k].len)]
SentBar    == [c \in Conns |-> IF c \in inherits THEN <<>> ELSE KindsOf(c)]
HandedBar  == [c \in Conns |-> IF c \in inherits THEN <<>> ELSE delivered[c]]
barVars    == <<SentBar, HandedBar, Excused, ended>>

LEMMA KindsAre ==
  ASSUME Shape, NEW c \in Conns
  PROVE  /\ KindsOf(c) \in Seq(Channel!Kinds) /\ Len(KindsOf(c)) = Len(sent[c])
         /\ Len(sent[c]) \in Nat
         /\ \A k \in 1 .. Len(sent[c]) : KindsOf(c)[k] = Kind(sent[c][k].len)
<1>1. Len(sent[c]) \in Nat
  BY LenProperties DEF Shape, FramingTypeOK
<1>2. \A k \in 1 .. Len(sent[c]) : Kind(sent[c][k].len) \in Channel!Kinds
  BY DEF Kind, Channel!Kinds
<1>3. KindsOf(c) \in [1 .. Len(sent[c]) -> Channel!Kinds]
  BY <1>2 DEF KindsOf
<1> QED
  BY <1>1, <1>3, SeqDef DEF KindsOf

LEMMA InitChannel == FramingInit => Channel!Init
<1> SUFFICES ASSUME FramingInit PROVE Channel!Init
  OBVIOUS
<1>1. \A c \in Conns : KindsOf(c) = <<>>
  <2> SUFFICES ASSUME NEW c \in Conns PROVE KindsOf(c) = <<>>
    OBVIOUS
  <2>1. Shape /\ Len(sent[c]) = 0
    BY InitShape DEF FramingInit
  <2> QED
    BY <2>1, KindsAre, EmptySeq
<1>2. Excused = {}
  BY DEF FramingInit, Excused
<1> QED
  BY <1>1, <1>2 DEF FramingInit, Channel!Init, KindsOf

\* What changes none of the histories and what the clients have sent is nothing
\* to FrameChannel; one more cause to end a connection is Excuse.
LEMMA ChannelSame ==
  ASSUME UNCHANGED <<sent, delivered, inherits, ended>>, NEW c \in Conns,
         Excused' = Excused \/ Excused' = Excused \cup {c}
  PROVE  [Channel!Next]_(Channel!vars)
<1>1. SentBar' = SentBar /\ HandedBar' = HandedBar /\ ended' = ended
  BY DEF SentBar, KindsOf, HandedBar
<1>2. CASE Excused' = Excused
  BY <1>1, <1>2 DEF Channel!vars, SentBar, KindsOf, HandedBar
<1>3. CASE Excused' = Excused \cup {c}
  <2>1. Channel!Excuse(c)
    BY <1>1, <1>3 DEF Channel!Excuse, SentBar, KindsOf, HandedBar
  <2> QED
    BY <2>1 DEF Channel!Next
<1> QED
  BY <1>2, <1>3

LEMMA ChannelSend ==
  ASSUME Shape, NEW c \in Conns, NEW frame \in Frame, Send(c, frame)
  PROVE  [Channel!Next]_(Channel!vars)
<1>1. /\ sent' = [sent EXCEPT ![c] = Append(sent[c], frame)]
      /\ UNCHANGED <<fin, kernelVars, mainVars, queue, history>>
  BY DEF Send
<1>2. UNCHANGED <<delivered, kicked, inherits, flooded, ended, fin>>
  BY <1>1 DEF history
<1>3. Shape' /\ sent[c] \in Seq(Frame)
  BY ShapeSend DEF Shape, FramingTypeOK
<1>4. PICK n \in Nat : n = Len(sent[c])
  BY <1>3, LenProperties
<1>5. /\ \A d \in Conns : d # c => sent'[d] = sent[d]
      /\ Len(sent'[c]) = n + 1 /\ sent'[c][n + 1] = frame
      /\ \A k \in 1 .. n : sent'[c][k] = sent[c][k]
  <2>1. sent'[c] = Append(sent[c], frame) /\ \A d \in Conns : d # c => sent'[d] = sent[d]
    BY <1>1 DEF Shape, FramingTypeOK
  <2>2. /\ Len(Append(sent[c], frame)) = n + 1 /\ Append(sent[c], frame)[n + 1] = frame
        /\ \A k \in 1 .. n : Append(sent[c], frame)[k] = sent[c][k]
    BY <1>3, <1>4, AppendProperties
  <2> QED
    BY <2>1, <2>2
<1>6. KindsOf(c)' = Append(KindsOf(c), Kind(frame.len))
  <2>1. KindsOf(c)' = [k \in 1 .. n + 1 |-> Kind(sent'[c][k].len)]
    BY <1>5 DEF KindsOf
  <2>2. KindsOf(c) \in Seq(Channel!Kinds) /\ Len(KindsOf(c)) = n
        /\ \A k \in 1 .. n : KindsOf(c)[k] = Kind(sent[c][k].len)
    BY <1>4, KindsAre
  <2>3. Kind(frame.len) \in Channel!Kinds
    BY DEF Kind, Channel!Kinds
  <2>4. PICK a \in Seq(Channel!Kinds) :
           /\ a = Append(KindsOf(c), Kind(frame.len)) /\ Len(a) = n + 1
           /\ a[n + 1] = Kind(frame.len) /\ \A k \in 1 .. n : a[k] = KindsOf(c)[k]
    <3>1. /\ Append(KindsOf(c), Kind(frame.len)) \in Seq(Channel!Kinds)
          /\ Len(Append(KindsOf(c), Kind(frame.len))) = n + 1
          /\ Append(KindsOf(c), Kind(frame.len))[n + 1] = Kind(frame.len)
          /\ \A k \in 1 .. n : Append(KindsOf(c), Kind(frame.len))[k] = KindsOf(c)[k]
      BY <2>2, <2>3, AppendProperties
    <3> QED
      BY <3>1
  <2>5. \A k \in 1 .. n + 1 : a[k] = Kind(sent'[c][k].len)
    <3> SUFFICES ASSUME NEW k \in 1 .. n + 1 PROVE a[k] = Kind(sent'[c][k].len)
      OBVIOUS
    <3>1. CASE k = n + 1
      BY <1>5, <2>4, <3>1
    <3>2. CASE k # n + 1
      <4>1. k \in 1 .. n
        BY <3>2
      <4> QED
        BY <1>5, <2>2, <2>4, <4>1
    <3> QED
      BY <3>1, <3>2
  <2>6. a = [k \in 1 .. n + 1 |-> a[k]]
    BY <2>4, LenProperties
  <2>7. [k \in 1 .. n + 1 |-> a[k]] = [k \in 1 .. n + 1 |-> Kind(sent'[c][k].len)]
    BY <2>5
  <2> QED
    BY <2>1, <2>4, <2>6, <2>7
<1>7. \A d \in Conns : d # c => KindsOf(d)' = KindsOf(d)
  BY <1>5 DEF KindsOf
<1>8. Excused' = IF Kind(frame.len) = "illegal" THEN Excused \cup {c} ELSE Excused
  <2>1. Kind(frame.len) = "illegal" <=> Illegal(frame.len)
    BY DEF Kind
  <2>2. (\E k \in 1 .. Len(sent'[c]) : Illegal(sent'[c][k].len))
          <=> (\E k \in 1 .. Len(sent[c]) : Illegal(sent[c][k].len)) \/ Illegal(frame.len)
    <3>1. ASSUME NEW k \in 1 .. n + 1, Illegal(sent'[c][k].len)
          PROVE  (\E j \in 1 .. n : Illegal(sent[c][j].len)) \/ Illegal(frame.len)
      <4>1. k \in 1 .. n \/ k = n + 1
        OBVIOUS
      <4> QED
        BY <1>5, <3>1, <4>1
    <3>2. n + 1 \in 1 .. n + 1 /\ \A k \in 1 .. n : k \in 1 .. n + 1
      OBVIOUS
    <3> QED
      BY <1>4, <1>5, <3>1, <3>2
  <2> DEFINE Bad == {d \in Conns : \E k \in 1 .. Len(sent[d]) : Illegal(sent[d][k].len)}
             Bad2 == {d \in Conns : \E k \in 1 .. Len(sent'[d]) : Illegal(sent'[d][k].len)}
  <2>3. Bad2 = IF Illegal(frame.len) THEN Bad \cup {c} ELSE Bad
    BY <1>5, <2>2
  <2>4. Excused = fin \cup kicked \cup inherits \cup flooded \cup Bad
        /\ Excused' = fin \cup kicked \cup inherits \cup flooded \cup Bad2
    BY <1>2 DEF Excused
  <2> HIDE DEF Bad, Bad2
  <2> QED
    BY <2>1, <2>3, <2>4
<1>9. CASE c \in inherits
  <2>1. SentBar' = SentBar /\ HandedBar' = HandedBar /\ ended' = ended
    BY <1>2, <1>7, <1>9 DEF SentBar, HandedBar
  <2>2. Excused' = Excused
    BY <1>8, <1>9 DEF Excused
  <2> QED
    BY <2>1, <2>2 DEF Channel!vars, SentBar, KindsOf, HandedBar
<1>10. CASE c \notin inherits
  <2>1. SentBar' = [SentBar EXCEPT ![c] = Append(SentBar[c], Kind(frame.len))]
    BY <1>2, <1>6, <1>7, <1>10 DEF SentBar
  <2>2. HandedBar' = HandedBar /\ ended' = ended
    BY <1>2 DEF HandedBar
  <2>3. Channel!Send(c, Kind(frame.len))
    BY <1>8, <2>1, <2>2 DEF Channel!Send, SentBar, KindsOf, HandedBar
  <2>4. Kind(frame.len) \in Channel!Kinds
    BY DEF Kind, Channel!Kinds
  <2> QED
    BY <2>3, <2>4 DEF Channel!Next
<1> QED
  BY <1>9, <1>10

LEMMA ChannelAccept ==
  ASSUME Shape, NEW f \in Fds, Accept(f)
  PROVE  [Channel!Next]_(Channel!vars)
<1> DEFINE new == accepted + 1
<1>1. /\ accepted < MaxConns /\ accepted \in Nat /\ new \in Conns
      /\ inherits' \in {inherits, inherits \cup {new}}
      /\ UNCHANGED <<sent, fin, delivered, kicked, flooded, ended>>
  BY BoundsAssumption DEF Accept, Shape, FramingTypeOK, Conns, clientVars
<1>2. sent[new] = <<>> /\ delivered[new] = <<>>
  BY <1>1 DEF Shape, Fresh
<1>3. KindsOf(new) = <<>>
  <2>1. Len(KindsOf(new)) = 0 /\ KindsOf(new) \in Seq(Channel!Kinds)
    BY <1>1, <1>2, KindsAre, EmptySeq
  <2> QED
    BY <2>1, EmptySeq
<1>4. \A c \in Conns : KindsOf(c)' = KindsOf(c)
  BY <1>1 DEF KindsOf
<1> HIDE DEF new
<1>5. SentBar' = SentBar /\ HandedBar' = HandedBar /\ ended' = ended
  BY <1>1, <1>2, <1>3, <1>4 DEF SentBar, HandedBar
<1>6. Excused' = Excused \/ Excused' = Excused \cup {new}
  BY <1>1 DEF Excused
<1>7. CASE Excused' = Excused
  BY <1>5, <1>7 DEF Channel!vars, SentBar, KindsOf, HandedBar
<1>8. CASE Excused' = Excused \cup {new}
  <2>1. Channel!Excuse(new)
    BY <1>5, <1>8 DEF Channel!Excuse, SentBar, KindsOf, HandedBar
  <2> QED
    BY <1>1, <2>1 DEF Channel!Next
<1> QED
  BY <1>6, <1>7, <1>8

LEMMA ChannelEnds ==
  ASSUME Shape, NEW f \in Fds, Disconnect(f), sock[f] # NONE => sock[f] \in Excused
  PROVE  [Channel!Next]_(Channel!vars)
<1>1. /\ UNCHANGED <<sent, fin, delivered, kicked, inherits, flooded>>
      /\ ended' = ended \cup ({sock[f]} \ {NONE}) /\ sock[f] \in Conns \cup {NONE}
  BY DEF Disconnect, Shape, FramingTypeOK
<1>2. SentBar' = SentBar /\ HandedBar' = HandedBar /\ Excused' = Excused
  BY <1>1 DEF SentBar, KindsOf, HandedBar, Excused
<1>3. CASE sock[f] = NONE
  BY <1>1, <1>2, <1>3 DEF Channel!vars, SentBar, KindsOf, HandedBar
<1>4. CASE sock[f] # NONE
  <2>1. Channel!End(sock[f])
    BY <1>1, <1>2, <1>4 DEF Channel!End, SentBar, KindsOf, HandedBar
  <2> QED
    BY <1>1, <1>4, <2>1 DEF Channel!Next
<1> QED
  BY <1>3, <1>4

LEMMA ChannelReadEnds ==
  ASSUME Shape, FlowInv, NEW f \in Fds, ReadEnds(f)
  PROVE  [Channel!Next]_(Channel!vars)
<1>1. /\ Disconnect(f)
      /\ \/ f \notin known \/ sock[f] = NONE
         \/ sock[f] \in fin
         \/ sock[f] # NONE /\ Len(buf[f]) + Len(unread[sock[f]]) > Limit
  BY DEF ReadEnds
<1>2. f \notin known => sock[f] = NONE
  BY DEF Shape, FramingTypeOK
<1>3. sock[f] # NONE => sock[f] \in Excused
  BY <1>1, <1>2 DEF FlowInv, Flood, Excused
<1> QED
  BY <1>1, <1>3, ChannelEnds

LEMMA ChannelExtractEnds ==
  ASSUME Shape, FlowInv, NEW f \in Fds, ExtractEnds(f)
  PROVE  [Channel!Next]_(Channel!vars)
<1>1. /\ parsing.fd = f /\ Len(buf[f]) >= HeaderSize /\ Disconnect(f)
      /\ \E len \in Header(buf[f]) : Illegal(len)
  BY DEF ExtractEnds, At
<1>2. ASSUME sock[f] # NONE PROVE sock[f] \in Excused
  <2>1. sock[f] = Cur(f) /\ Cur(f) \in Conns
    BY <1>2, CurIsConn
  <2>2. CASE Cur(f) \in inherits
    BY <2>1, <2>2 DEF Excused
  <2>3. CASE Cur(f) \notin inherits
    <3>1. Cur(f) \notin inherits \cup {NONE} /\ FlowAt(f)
      BY <1>2, <2>1, <2>3 DEF FlowInv
    <3>2. LET k == Stream(f)[1].frame IN
             k \in 1 .. Len(sent[Cur(f)]) /\ Header(buf[f]) = {sent[Cur(f)][k].len}
      BY <1>1, <3>1, FrameAtHead
    <3>3. \E k \in 1 .. Len(sent[Cur(f)]) : Illegal(sent[Cur(f)][k].len)
      BY <1>1, <3>2
    <3> QED
      BY <2>1, <3>3 DEF Excused
  <2> QED
    BY <2>2, <2>3
<1> QED
  BY <1>1, <1>2, ChannelEnds

LEMMA ChannelRoutes ==
  ASSUME Shape, FlowInv, NEW f \in Fds, ExtractRoutes(f)
  PROVE  [Channel!Next]_(Channel!vars)
<1>1. PICK len \in Nat \ {0}, k \in {0} \cup FrameNos :
            /\ len \in Header(buf[f]) /\ ~Illegal(len)
            /\ HeaderSize + len <= Len(buf[f]) /\ HeaderSize + len \in Nat
            /\ k = FrameOf(parsing.conn, SubSeq(buf[f], HeaderSize + 1, HeaderSize + len))
            /\ delivered' = [delivered EXCEPT ![parsing.conn] = Append(@, k)]
  BY RouteOf
<1>2. /\ parsing.fd = f /\ UNCHANGED <<sent, fin, kicked, inherits, flooded, ended>>
  BY DEF ExtractRoutes, At, clientVars
<1>3. PICK c \in Conns : c = parsing.conn
  BY <1>2, CutWhere
<1>4. /\ delivered'[c] = Append(delivered[c], k) /\ \A d \in Conns : d # c => delivered'[d] = delivered[d]
  BY <1>1, <1>3 DEF Shape, FramingTypeOK
<1>5. SentBar' = SentBar /\ Excused' = Excused /\ ended' = ended
  BY <1>2 DEF SentBar, KindsOf, Excused
<1>6. CASE c \in inherits
  <2>1. HandedBar' = HandedBar
    BY <1>2, <1>4, <1>6 DEF HandedBar
  <2> QED
    BY <1>5, <2>1 DEF Channel!vars, SentBar, KindsOf, HandedBar
<1>7. CASE c \notin inherits
  <2>1. FlowAt(f)
    BY DEF FlowInv
  <2>2. /\ k \in 1 .. Len(sent[c]) /\ sent[c][k].len = len /\ Upto(k, sent[c], delivered[c])
    BY <1>1, <1>2, <1>3, <1>7, <2>1, RoutedIsNext
  <2>3. SentBar[c] = KindsOf(c) /\ HandedBar[c] = delivered[c]
    BY <1>7 DEF SentBar, HandedBar
  <2>4. /\ Len(SentBar[c]) = Len(sent[c]) /\ Len(sent[c]) \in Nat
        /\ \A j \in 1 .. Len(sent[c]) : SentBar[c][j] = Kind(sent[c][j].len)
    BY <2>3, KindsAre
  <2>5. SentBar[c][k] = "full"
    BY <1>1, <2>2, <2>4 DEF Kind
  <2>6. Items(delivered[c]) = {HandedBar[c][i] : i \in 1 .. Len(HandedBar[c])}
    BY <2>3 DEF Items
  <2>7. k \notin Items(delivered[c])
    BY <2>2 DEF Upto
  <2>8. ASSUME NEW j \in 1 .. k - 1 PROVE SentBar[c][j] = "empty" \/ j \in Items(delivered[c])
    <3>1. j \in 1 .. Len(sent[c]) /\ j < k
      BY <2>2, <2>4
    <3>2. ~Illegal(sent[c][j].len) /\ (sent[c][j].len # 0 => j \in Items(delivered[c]))
      BY <2>2, <3>1 DEF Upto
    <3> QED
      BY <2>4, <3>1, <3>2 DEF Kind
  <2>9. HandedBar' = [HandedBar EXCEPT ![c] = Append(HandedBar[c], k)]
    BY <1>2, <1>4, <1>7 DEF HandedBar
  <2>10. Channel!Seen(c) = Items(delivered[c])
    BY <2>6 DEF Channel!Seen, HandedBar
  <2>11. Channel!Deliver(c, k)
    BY <1>5, <2>5, <2>7, <2>8, <2>9, <2>10 DEF Channel!Deliver, SentBar, KindsOf, HandedBar
  <2>12. k \in 1 .. Len(SentBar[c])
    BY <2>2, <2>4
  <2> QED
    BY <2>11, <2>12 DEF Channel!Next, SentBar, KindsOf
<1> QED
  BY <1>6, <1>7

LEMMA ChannelStep == Shape /\ FlowInv /\ FramingStep => [Channel!Next]_(Channel!vars)
<1> SUFFICES ASSUME Shape, FlowInv, FramingStep PROVE [Channel!Next]_(Channel!vars)
  OBVIOUS
<1>1. ASSUME NEW c \in Conns, NEW frame \in Frame, Send(c, frame) PROVE [Channel!Next]_(Channel!vars)
  BY <1>1, ChannelSend
<1>2. ASSUME NEW c \in Conns, Arrive(c) \/ HungUp(c) PROVE [Channel!Next]_(Channel!vars)
  <2>1. /\ UNCHANGED <<sent, delivered, inherits, ended>> /\ UNCHANGED kicked
        /\ \/ fin' = fin /\ flooded' \in {flooded, flooded \cup {c}}
           \/ fin' = fin \cup {c} /\ flooded' = flooded
    BY <1>2 DEF Arrive, HungUp, history
  <2>2. Excused' = Excused \/ Excused' = Excused \cup {c}
    BY <2>1 DEF Excused
  <2> QED
    BY <2>1, <2>2, ChannelSame
<1>3. ASSUME NEW f \in Fds, Accept(f) PROVE [Channel!Next]_(Channel!vars)
  BY <1>3, ChannelAccept
<1>4. ASSUME NEW f \in Fds, Kick(f) PROVE [Channel!Next]_(Channel!vars)
  <2>1. /\ UNCHANGED <<sent, fin, delivered, inherits, flooded, ended>>
        /\ kicked' = kicked \cup ({sock[f]} \ {NONE}) /\ sock[f] \in Conns \cup {NONE}
    BY <1>4 DEF Kick, Shape, FramingTypeOK
  <2>2. CASE sock[f] \in Conns
    <3>1. Excused' = Excused \/ Excused' = Excused \cup {sock[f]}
      BY <2>1 DEF Excused
    <3> QED
      BY <2>1, <2>2, <3>1, ChannelSame
  <2>3. CASE sock[f] = NONE
    <3>1. UNCHANGED <<SentBar, HandedBar, Excused, ended>>
      BY <2>1, <2>3 DEF SentBar, KindsOf, HandedBar, Excused
    <3> QED
      BY <3>1 DEF Channel!vars, SentBar, KindsOf, HandedBar
  <2> QED
    BY <2>1, <2>2, <2>3
<1>5. ASSUME NEW f \in Fds, ReadEnds(f) PROVE [Channel!Next]_(Channel!vars)
  BY <1>5, ChannelReadEnds
<1>6. ASSUME NEW f \in Fds, ExtractEnds(f) PROVE [Channel!Next]_(Channel!vars)
  BY <1>6, ChannelExtractEnds
<1>7. ASSUME NEW f \in Fds, ExtractRoutes(f) PROVE [Channel!Next]_(Channel!vars)
  BY <1>7, ChannelRoutes
<1>8. CASE \/ EpollWait \/ TakeItem \/ UNCHANGED framingVars
           \/ \E f \in Fds : Read(f) \/ ExtractWaits(f) \/ ExtractSkips(f)
  <2>1. UNCHANGED <<sent, fin, history>>
    BY <1>8 DEF EpollWait, TakeItem, framingVars, Read, ExtractWaits, ExtractSkips, clientVars
  <2>2. UNCHANGED <<SentBar, HandedBar, Excused, ended>>
    BY <2>1 DEF SentBar, KindsOf, HandedBar, Excused, history
  <2> QED
    BY <2>2 DEF Channel!vars, SentBar, KindsOf, HandedBar
<1> QED
  BY <1>1, <1>2, <1>3, <1>4, <1>5, <1>6, <1>7, <1>8 DEF FramingStep, Main

----------------------------------------------------------------------------
(* The programs and the workers.                                               *)
\* A request a worker has is one that was sent; the one it has decided about is
\* a log-in or a registration.
Asked ==
    /\ \A c \in Conns : Len(sent[c]) <= MaxFrames
    /\ \A i \in 1 .. Len(queue) : queue[i].frame <= Len(sent[queue[i].conn])
    /\ job # NoJob =>
          /\ job \in [item : [fd : Fds, conn : Conns, frame : FrameNos], ok : BOOLEAN]
          /\ job.item.frame <= Len(sent[job.item.conn])
          /\ sent[job.item.conn][job.item.frame].op \in {"login", "register"}

ProgramTypeOK ==
    /\ client \in Casts
    /\ phase \in [Conns -> {"menu", "wait", "main", "join", "ended"}]
    /\ receiver \in [Conns -> {"off", "check", "recv", "done"}]
    /\ believes \in [Conns -> {0} \cup FrameNos]
    /\ sessions \in [Fds -> [conn : Conns \cup {NONE}, frame : {0} \cup FrameNos]]
    /\ notices \in 0 .. MaxNotices
    /\ misled \subseteq Conns

Packet == [type : {"USER_LOGIN_RES", "SC_LOGIN_RES", "REGISTER_RES", "SC_ORDER_STATUS"},
           ok : BOOLEAN, conn : Conns \cup {NONE}, frame : {0} \cup FrameNos]

InboxTypeOK == inbox \in [Conns -> Seq(Packet)]

LEMMA TypeOKParts == TypeOK <=> FramingTypeOK /\ ProgramTypeOK /\ InboxTypeOK
BY DEF TypeOK, ProgramTypeOK, InboxTypeOK, Packet

Typed == Shape /\ ProgramTypeOK /\ InboxTypeOK /\ Asked

LEMMA InitTyped == Init => Typed
<1> SUFFICES ASSUME Init PROVE Typed
  OBVIOUS
<1>1. Shape
  BY InitShape DEF Init
<1>2. ProgramTypeOK
  BY NoticesAssumption DEF Init, ProgramTypeOK, NoSession
<1>3. InboxTypeOK
  <2>1. <<>> \in Seq(Packet)
    BY EmptySeq
  <2> QED
    BY <2>1 DEF Init, InboxTypeOK
<1>4. Asked
  <2>1. \A c \in Conns : Len(sent[c]) = 0
    BY DEF Init, FramingInit
  <2>2. Len(queue) = 0
    BY DEF Init, FramingInit
  <2>3. job = NoJob
    BY DEF Init
  <2> QED
    BY <2>1, <2>2, <2>3, BoundsAssumption DEF Asked
<1> QED
  BY <1>1, <1>2, <1>3, <1>4 DEF Typed

\* What the programs write are frames.
LEMMA WritesSends ==
  ASSUME client \in Casts, NEW c \in Conns, NEW op \in {"login", "register", "ask"}, Writes(c, op)
  PROVE  \E frame \in Frame : Send(c, frame) /\ frame.op = op
<1>1. PICK len \in client[c].lengths : Send(c, [len |-> len, op |-> op])
  BY DEF Writes
<1>2. client[c] \in Client
  BY CastAssumption
<1>3. len \in Lengths
  BY <1>1, <1>2 DEF Client
<1>4. [len |-> len, op |-> op] \in Frame
  BY <1>3, OpsAssumption DEF Frame
<1> QED
  BY <1>1, <1>4

\* Every step is one of Framing.
LEMMA Steps == client \in Casts /\ [Next]_vars => FramingStep
<1> SUFFICES ASSUME client \in Casts, [Next]_vars PROVE FramingStep
  OBVIOUS
<1>1. ASSUME NEW c \in Conns, RawSend(c) \/ AskAndWait(c) \/ Ask(c) PROVE FramingStep
  <2>1. \E op \in {"login", "register", "ask"} : Writes(c, op)
    BY <1>1 DEF RawSend, AskAndWait, Ask, Offers
  <2>2. \E frame \in Frame : Send(c, frame)
    BY <2>1, WritesSends
  <2> QED
    BY <2>2 DEF FramingStep
<1>2. ASSUME NEW c \in Conns, RawHangUp(c) \/ Leave(c) \/ Exit(c) \/ Program(c) \/ Transport(c)
      PROVE  FramingStep
  <2>1. HungUp(c) \/ Arrive(c) \/ UNCHANGED framingVars
    BY <1>2 DEF RawHangUp, Leave, Exit, Program, TakeAnswer, Join, ReceiverChecks, ReceiverGets,
                ReceiverFails, Transport
  <2> QED
    BY <2>1 DEF FramingStep
<1>3. ASSUME NEW f \in Fds, Connect(f) \/ Notice(f) \/ Ban(f) PROVE FramingStep
  BY <1>3 DEF Connect, Notice, Ban, FramingStep
<1>4. CASE Network
  BY <1>4 DEF Network, FramingStep
<1>5. CASE Worker
  <2>1. CASE Handle
    <3>1. TakeItem
      BY <2>1 DEF Handle, TakeItem
    <3> QED
      BY <3>1 DEF FramingStep
  <2>2. CASE Answer
    BY <2>2 DEF Answer, FramingStep
  <2> QED
    BY <1>5, <2>1, <2>2 DEF Worker
<1>6. CASE UNCHANGED vars
  BY <1>6 DEF vars, FramingStep
<1> QED
  BY <1>1, <1>2, <1>3, <1>4, <1>5, <1>6 DEF Next

\* What was sent stays as it is.
LEMMA SentStays ==
  ASSUME Shape, FramingStep
  PROVE  \A c \in Conns : /\ Len(sent[c]) \in Nat /\ Len(sent'[c]) \in Nat
                          /\ Len(sent[c]) <= Len(sent'[c])
                          /\ \A k \in 1 .. Len(sent[c]) : sent'[c][k] = sent[c][k]
                          /\ Len(sent[c]) <= MaxFrames => Len(sent'[c]) <= MaxFrames
<1> SUFFICES ASSUME NEW c \in Conns
             PROVE  /\ Len(sent[c]) \in Nat /\ Len(sent'[c]) \in Nat
                    /\ Len(sent[c]) <= Len(sent'[c])
                    /\ \A k \in 1 .. Len(sent[c]) : sent'[c][k] = sent[c][k]
                    /\ Len(sent[c]) <= MaxFrames => Len(sent'[c]) <= MaxFrames
  OBVIOUS
<1>1. sent[c] \in Seq(Frame) /\ Len(sent[c]) \in Nat
  BY LenProperties DEF Shape, FramingTypeOK
<1>2. CASE sent' = sent
  BY <1>1, <1>2
<1>3. ASSUME NEW d \in Conns, NEW frame \in Frame, Send(d, frame)
      PROVE  \/ sent'[c] = sent[c]
             \/ sent'[c] = Append(sent[c], frame) /\ Len(sent[c]) < MaxFrames
  BY <1>3 DEF Send, Shape, FramingTypeOK
<1>4. ASSUME NEW frame \in Frame, sent'[c] = Append(sent[c], frame), Len(sent[c]) < MaxFrames
      PROVE  /\ Len(sent'[c]) = Len(sent[c]) + 1
             /\ \A k \in 1 .. Len(sent[c]) : sent'[c][k] = sent[c][k]
  BY <1>1, <1>4, AppendProperties
<1>5. sent' = sent \/ \E d \in Conns, frame \in Frame : Send(d, frame)
  BY DEF FramingStep, Arrive, HungUp, Accept, Kick, Main, EpollWait, ReadEnds, Disconnect, Read,
         ExtractWaits, ExtractEnds, ExtractSkips, ExtractRoutes, TakeItem, framingVars, clientVars
<1>6. ASSUME NEW d \in Conns, NEW frame \in Frame, Send(d, frame)
      PROVE  /\ Len(sent'[c]) \in Nat
             /\ Len(sent[c]) <= Len(sent'[c])
             /\ \A k \in 1 .. Len(sent[c]) : sent'[c][k] = sent[c][k]
             /\ Len(sent[c]) <= MaxFrames => Len(sent'[c]) <= MaxFrames
  <2>1. CASE sent'[c] = sent[c]
    BY <1>1, <2>1
  <2>2. CASE sent'[c] = Append(sent[c], frame) /\ Len(sent[c]) < MaxFrames
    BY <1>1, <1>4, <2>2, BoundsAssumption
  <2> QED
    BY <1>3, <1>6, <2>1, <2>2
<1> QED
  BY <1>1, <1>2, <1>5, <1>6

LEMMA QueueStays ==
  ASSUME Shape, FramingStep, Asked
  PROVE  \A i \in 1 .. Len(queue') : queue'[i].frame <= Len(sent'[queue'[i].conn])
<1> DEFINE Item == [fd : Fds, conn : Conns, frame : {0} \cup FrameNos]
<1>1. queue \in Seq(Item) /\ Len(queue) \in Nat
  BY LenProperties DEF Shape, FramingTypeOK
<1>2. ASSUME NEW i \in 1 .. Len(queue)
      PROVE  /\ queue[i].conn \in Conns /\ queue[i].frame \in Nat
             /\ queue[i].frame <= Len(sent'[queue[i].conn])
  <2>1. queue[i] \in Item
    BY <1>1, ElementOfSeq
  <2>2. queue[i].conn \in Conns /\ queue[i].frame \in Nat
    BY <2>1 DEF FrameNos
  <2>3. queue[i].frame <= Len(sent[queue[i].conn])
    BY DEF Asked
  <2>4. /\ Len(sent[queue[i].conn]) \in Nat /\ Len(sent'[queue[i].conn]) \in Nat
        /\ Len(sent[queue[i].conn]) <= Len(sent'[queue[i].conn])
    BY <2>2, SentStays
  <2> QED
    BY <2>2, <2>3, <2>4
<1>3. CASE queue' = queue
  BY <1>2, <1>3
<1>4. CASE queue # <<>> /\ queue' = Tail(queue)
  <2>1. Len(queue') = Len(queue) - 1 /\ \A i \in 1 .. Len(queue') : queue'[i] = queue[i + 1]
    BY <1>1, <1>4, HeadTailProperties
  <2>2. \A i \in 1 .. Len(queue') : i + 1 \in 1 .. Len(queue)
    BY <1>1, <2>1
  <2> QED
    BY <1>2, <2>1, <2>2
<1>5. ASSUME NEW f \in Fds, ExtractRoutes(f)
      PROVE  \A i \in 1 .. Len(queue') : queue'[i].frame <= Len(sent'[queue'[i].conn])
  <2>1. PICK k \in {0} \cup FrameNos :
           /\ k <= Len(sent[parsing.conn])
           /\ queue' = Append(queue, [fd |-> f, conn |-> parsing.conn, frame |-> k])
    BY <1>5, RouteOf
  <2>2. PICK c \in Conns : c = parsing.conn /\ sent' = sent
    BY <1>5, CutWhere DEF ExtractRoutes, At, clientVars
  <2>3. PICK r \in Item : r = [fd |-> f, conn |-> c, frame |-> k]
    OBVIOUS
  <2>4. /\ Len(queue') = Len(queue) + 1 /\ queue'[Len(queue) + 1] = r
        /\ \A i \in 1 .. Len(queue) : queue'[i] = queue[i]
    BY <1>1, <2>1, <2>2, <2>3, AppendProperties
  <2>5. r.frame <= Len(sent'[r.conn])
    BY <2>1, <2>2, <2>3
  <2> SUFFICES ASSUME NEW i \in 1 .. Len(queue') PROVE queue'[i].frame <= Len(sent'[queue'[i].conn])
    OBVIOUS
  <2>6. i \in 1 .. Len(queue) \/ i = Len(queue) + 1
    BY <1>1, <2>4
  <2> QED
    BY <1>2, <2>4, <2>5, <2>6
<1>6. \/ queue' = queue \/ (queue # <<>> /\ queue' = Tail(queue))
      \/ \E f \in Fds : ExtractRoutes(f)
  BY DEF FramingStep, Send, Arrive, HungUp, Accept, Kick, Main, EpollWait, ReadEnds, Disconnect, Read,
         ExtractWaits, ExtractEnds, ExtractSkips, TakeItem, framingVars
<1> QED
  BY <1>3, <1>4, <1>5, <1>6

LEMMA HeadIsItem ==
  ASSUME Shape, Asked, queue # <<>>
  PROVE  /\ Head(queue) = queue[1] /\ 1 \in 1 .. Len(queue)
         /\ Head(queue) \in [fd : Fds, conn : Conns, frame : {0} \cup FrameNos]
         /\ Head(queue).frame <= Len(sent[Head(queue).conn])
<1>1. queue \in Seq([fd : Fds, conn : Conns, frame : {0} \cup FrameNos])
  BY DEF Shape, FramingTypeOK
<1>2. Head(queue) = queue[1] /\ 1 \in 1 .. Len(queue)
  BY <1>1, HeadTailProperties, EmptySeq
<1>3. queue[1] \in [fd : Fds, conn : Conns, frame : {0} \cup FrameNos]
  BY <1>1, <1>2, ElementOfSeq
<1> QED
  BY <1>2, <1>3 DEF Asked

\* What a worker decides about.
LEMMA HandleDecides ==
  ASSUME Shape, Asked, Handle
  PROVE  \/ job' = NoJob /\ UNCHANGED <<sessions, entered>>
         \/ /\ job'.item = Head(queue) /\ job' \in [item : [fd : Fds, conn : Conns, frame : FrameNos], ok : BOOLEAN]
            /\ sent[Head(queue).conn][Head(queue).frame].op \in {"login", "register"}
            /\ \/ /\ sessions' = [sessions EXCEPT ![Head(queue).fd] =
                                   [conn |-> Head(queue).conn, frame |-> Head(queue).frame]]
                  /\ entered' = entered \cup {[conn |-> Head(queue).conn, frame |-> Head(queue).frame]}
               \/ /\ UNCHANGED <<sessions, entered>>
                  /\ job'.ok => sent[Head(queue).conn][Head(queue).frame].op = "register"
<1> DEFINE i == Head(queue)
           op == IF i.frame = 0 THEN "none" ELSE sent[i.conn][i.frame].op
<1>1. /\ job = NoJob /\ queue # <<>>
      /\ \/ /\ op = "login"
            /\ sessions' = [sessions EXCEPT ![i.fd] = [conn |-> i.conn, frame |-> i.frame]]
            /\ entered' = entered \cup {[conn |-> i.conn, frame |-> i.frame]}
            /\ job' = [item |-> i, ok |-> TRUE]
         \/ /\ op \in {"login", "register"}
            /\ \E ok \in {FALSE, op = "register"} : job' = [item |-> i, ok |-> ok]
            /\ UNCHANGED <<sessions, entered>>
         \/ /\ op \notin {"login", "register"}
            /\ UNCHANGED <<job, sessions, entered>>
  BY DEF Handle
<1>2. i \in [fd : Fds, conn : Conns, frame : {0} \cup FrameNos]
  BY <1>1, HeadIsItem
<1>3. ASSUME op \in {"login", "register"}
      PROVE  /\ i \in [fd : Fds, conn : Conns, frame : FrameNos]
             /\ op = sent[i.conn][i.frame].op
  BY <1>2, <1>3
<1> HIDE DEF i, op
<1>4. CASE op = "login" /\ job' = [item |-> i, ok |-> TRUE]
           /\ sessions' = [sessions EXCEPT ![i.fd] = [conn |-> i.conn, frame |-> i.frame]]
           /\ entered' = entered \cup {[conn |-> i.conn, frame |-> i.frame]}
  BY <1>3, <1>4 DEF i
<1>5. ASSUME op \in {"login", "register"}, UNCHANGED <<sessions, entered>>,
             NEW ok \in {FALSE, op = "register"}, job' = [item |-> i, ok |-> ok]
      PROVE  /\ job'.item = i /\ job' \in [item : [fd : Fds, conn : Conns, frame : FrameNos], ok : BOOLEAN]
             /\ sent[i.conn][i.frame].op \in {"login", "register"}
             /\ job'.ok => sent[i.conn][i.frame].op = "register"
  <2>1. ok \in BOOLEAN /\ (ok => op = "register")
    OBVIOUS
  <2>2. job'.item = i /\ job'.ok = ok
    BY <1>5
  <2> QED
    BY <1>3, <1>5, <2>1, <2>2
<1>6. CASE op \notin {"login", "register"} /\ UNCHANGED <<job, sessions, entered>>
  BY <1>1, <1>6
<1> QED
  BY <1>1, <1>4, <1>5, <1>6 DEF i

LEMMA AskedStep == Typed /\ [Next]_vars => Asked'
<1> SUFFICES ASSUME Typed, [Next]_vars PROVE Asked'
  OBVIOUS
<1>1. FramingStep /\ Shape /\ Asked
  BY Steps DEF Typed, ProgramTypeOK
<1>2. \A c \in Conns : /\ Len(sent[c]) \in Nat /\ Len(sent'[c]) \in Nat
                       /\ Len(sent[c]) <= Len(sent'[c])
                       /\ \A k \in 1 .. Len(sent[c]) : sent'[c][k] = sent[c][k]
                       /\ Len(sent'[c]) <= MaxFrames
  BY <1>1, SentStays DEF Asked
<1>3. \A i \in 1 .. Len(queue') : queue'[i].frame <= Len(sent'[queue'[i].conn])
  BY <1>1, QueueStays
<1> DEFINE JobOK(j, s) ==
              /\ j \in [item : [fd : Fds, conn : Conns, frame : FrameNos], ok : BOOLEAN]
              /\ j.item.frame <= Len(s[j.item.conn])
              /\ s[j.item.conn][j.item.frame].op \in {"login", "register"}
<1>4. job' # NoJob => JobOK(job', sent')
  <2>1. CASE job' = job
    <3> SUFFICES ASSUME job # NoJob PROVE JobOK(job, sent')
      BY <2>1 DEF NoJob
    <3>1. JobOK(job, sent)
      BY <1>1 DEF Asked
    <3>2. job.item.conn \in Conns /\ job.item.frame \in Nat \ {0}
      BY <3>1 DEF FrameNos
    <3>3. job.item.frame \in 1 .. Len(sent[job.item.conn])
      BY <1>2, <3>1, <3>2
    <3> QED
      BY <1>2, <3>1, <3>2, <3>3
  <2>2. CASE Answer
    BY <2>2 DEF Answer, NoJob
  <2>3. CASE Handle
    <3>1. queue # <<>> /\ sent' = sent
      BY <2>3 DEF Handle, clientVars
    <3> QED
      BY <1>1, <2>3, <3>1, HandleDecides, HeadIsItem DEF NoJob
  <2>4. job' = job \/ Answer \/ Handle
    BY DEF Next, vars, serverVars, RawSend, RawHangUp, AskAndWait, Leave, Ask, Exit, Program, TakeAnswer,
           Join, ReceiverChecks, ReceiverGets, ReceiverFails, Transport, Connect, Notice, Ban, Network, Worker
  <2> QED
    BY <2>1, <2>2, <2>3, <2>4
<1> QED
  BY <1>2, <1>3, <1>4 DEF Asked, NoJob

LEMMA InboxTypeStep == Typed /\ [Next]_vars => InboxTypeOK'
<1> SUFFICES ASSUME Typed, [Next]_vars PROVE InboxTypeOK'
  OBVIOUS
<1>1. inbox \in [Conns -> Seq(Packet)]
  BY DEF Typed, InboxTypeOK
<1>2. ASSUME NEW f \in Fds, NEW p \in Packet, SendTo(f, p) PROVE InboxTypeOK'
  <2>1. \A c \in Conns : Append(inbox[c], p) \in Seq(Packet)
    BY <1>1, AppendProperties
  <2> QED
    BY <1>1, <1>2, <2>1 DEF SendTo, InboxTypeOK
<1>3. ASSUME NEW c \in Conns, inbox[c] # <<>>, inbox' = [inbox EXCEPT ![c] = Tail(@)]
      PROVE  InboxTypeOK'
  <2>1. Tail(inbox[c]) \in Seq(Packet)
    BY <1>1, <1>3, HeadTailProperties
  <2> QED
    BY <1>1, <1>3, <2>1 DEF InboxTypeOK
<1>4. CASE inbox' = inbox
  BY <1>1, <1>4 DEF InboxTypeOK
<1>5. CASE Answer
  <2> DEFINE i == job.item
  <2>1. /\ job \in [item : [fd : Fds, conn : Conns, frame : FrameNos], ok : BOOLEAN]
        /\ sent[i.conn][i.frame].op \in {"login", "register"}
    BY <1>5 DEF Answer, Typed, Asked
  <2>2. AnswerType(client[i.conn].kind, sent[i.conn][i.frame].op)
           \in {"USER_LOGIN_RES", "SC_LOGIN_RES", "REGISTER_RES", "SC_ORDER_STATUS"}
    BY <2>1 DEF AnswerType
  <2>3. SendTo(i.fd, [type |-> AnswerType(client[i.conn].kind, sent[i.conn][i.frame].op),
                      ok |-> job.ok, conn |-> i.conn, frame |-> i.frame])
    BY <1>5 DEF Answer
  <2>4. [type |-> AnswerType(client[i.conn].kind, sent[i.conn][i.frame].op),
         ok |-> job.ok, conn |-> i.conn, frame |-> i.frame] \in Packet
    BY <2>1, <2>2 DEF Packet
  <2>5. i.fd \in Fds
    BY <2>1
  <2> HIDE DEF i
  <2> QED
    BY <1>2, <2>3, <2>4, <2>5
<1>6. ASSUME NEW f \in Fds, Notice(f) \/ Ban(f) PROVE InboxTypeOK'
  <2>1. \A type \in {"SC_ORDER_STATUS", "SC_LOGIN_RES"} :
           [type |-> type, ok |-> FALSE, conn |-> NONE, frame |-> 0] \in Packet
    BY DEF Packet
  <2>2. \E type \in {"SC_ORDER_STATUS", "SC_LOGIN_RES"} :
           SendTo(f, [type |-> type, ok |-> FALSE, conn |-> NONE, frame |-> 0])
    BY <1>6 DEF Notice, Ban
  <2> QED
    BY <1>2, <2>1, <2>2
<1>7. ASSUME NEW c \in Conns, TakeAnswer(c) \/ ReceiverGets(c) PROVE InboxTypeOK'
  BY <1>3, <1>7 DEF TakeAnswer, ReceiverGets
<1>8. \/ inbox' = inbox \/ Answer \/ (\E f \in Fds : Notice(f) \/ Ban(f))
      \/ \E c \in Conns : TakeAnswer(c) \/ ReceiverGets(c)
  BY DEF Next, vars, programVars, RawSend, RawHangUp, AskAndWait, Leave, Ask, Exit, Program,
         Join, ReceiverChecks, ReceiverFails, Transport, Connect, Network, Worker, Handle
<1> QED
  BY <1>4, <1>5, <1>6, <1>7, <1>8

LEMMA ProgramTypeStep == Typed /\ [Next]_vars => ProgramTypeOK'
<1> SUFFICES ASSUME Typed, [Next]_vars PROVE ProgramTypeOK'
  OBVIOUS
<1>1. ProgramTypeOK /\ Shape /\ Asked
  BY DEF Typed
<1>2. \A c \in Conns : Len(sent[c]) \in {0} \cup FrameNos
  <2>1. \A c \in Conns : Len(sent[c]) \in Nat /\ Len(sent[c]) <= MaxFrames
    BY <1>1, LenProperties DEF Asked, Shape, FramingTypeOK
  <2> QED
    BY <2>1, BoundsAssumption DEF FrameNos
<1>3. ASSUME NEW c \in Conns, RawSend(c) \/ RawHangUp(c) \/ AskAndWait(c) \/ Leave(c) \/ Ask(c) \/ Exit(c)
      PROVE  ProgramTypeOK'
  BY <1>1, <1>3 DEF ProgramTypeOK, RawSend, RawHangUp, AskAndWait, Leave, Ask, Exit, programVars, serverVars
<1>4. ASSUME NEW c \in Conns, TakeAnswer(c) PROVE ProgramTypeOK'
  <2>1. UNCHANGED <<client, serverVars>> /\ misled' \in {misled, misled \cup {c}}
    BY <1>4 DEF TakeAnswer
  <2>2. \/ /\ phase' = [phase EXCEPT ![c] = "main"]
           /\ receiver' = [receiver EXCEPT ![c] = "check"]
           /\ believes' = [believes EXCEPT ![c] = Len(sent[c])]
        \/ phase' = [phase EXCEPT ![c] = "menu"] /\ UNCHANGED <<receiver, believes>>
        \/ phase' = [phase EXCEPT ![c] = "ended"] /\ UNCHANGED <<receiver, believes>>
    BY <1>4 DEF TakeAnswer
  <2> QED
    BY <1>1, <1>2, <2>1, <2>2 DEF ProgramTypeOK, serverVars
<1>5. ASSUME NEW c \in Conns, Join(c) \/ ReceiverChecks(c) \/ ReceiverGets(c) \/ ReceiverFails(c) \/ Transport(c)
      PROVE  ProgramTypeOK'
  BY <1>1, <1>5 DEF ProgramTypeOK, Join, ReceiverChecks, ReceiverGets, ReceiverFails, Transport, programVars, serverVars
<1>6. ASSUME NEW f \in Fds, Connect(f) \/ Notice(f) \/ Ban(f) PROVE ProgramTypeOK'
  BY <1>1, <1>6, NoticesAssumption DEF ProgramTypeOK, Connect, Notice, Ban, programVars, serverVars, NoSession
<1>7. CASE Network
  BY <1>1, <1>7 DEF ProgramTypeOK, Network, programVars, NoSession
<1>8. CASE Handle
  <2>1. queue # <<>> /\ UNCHANGED <<client, programVars, notices>>
    BY <1>8 DEF Handle
  <2>2. PICK h \in [fd : Fds, conn : Conns, frame : {0} \cup FrameNos] : h = Head(queue)
    BY <1>1, <2>1, HeadIsItem
  <2>3. PICK session \in [conn : Conns \cup {NONE}, frame : {0} \cup FrameNos] :
           session = [conn |-> h.conn, frame |-> h.frame]
    OBVIOUS
  <2>4. sessions' = sessions \/ sessions' = [sessions EXCEPT ![h.fd] = session]
    BY <1>1, <1>8, <2>2, <2>3, HandleDecides
  <2>5. sessions' \in [Fds -> [conn : Conns \cup {NONE}, frame : {0} \cup FrameNos]]
    BY <1>1, <2>4 DEF ProgramTypeOK
  <2> QED
    BY <1>1, <2>1, <2>5 DEF ProgramTypeOK, programVars
<1>9. CASE Answer
  BY <1>1, <1>9 DEF ProgramTypeOK, Answer
<1>10. CASE UNCHANGED vars
  BY <1>1, <1>10 DEF ProgramTypeOK, vars, programVars, serverVars
<1> QED
  BY <1>3, <1>4, <1>5, <1>6, <1>7, <1>8, <1>9, <1>10 DEF Next, Program, Worker

LEMMA TypedStep == Typed /\ [Next]_vars => Typed'
<1> SUFFICES ASSUME Typed, [Next]_vars PROVE Typed'
  OBVIOUS
<1>1. Shape'
  BY Steps, ShapeStep DEF Typed, ProgramTypeOK
<1> QED
  BY <1>1, AskedStep, InboxTypeStep, ProgramTypeStep DEF Typed

----------------------------------------------------------------------------
(* Where a request is: in a stream, in the work queue, with a worker, or its   *)
(* answer in the inbox.  The first unit of its body stands for it.             *)
Token(c, k) == U(c, k, HeaderSize + 1)

Rest(f) == IF sock[f] = NONE THEN {} ELSE Items(unread[sock[f]]) \cup Items(flight[sock[f]])
Held(f) == Items(buf[f]) \cup Rest(f)

InStream(c, k) == \E f \in Fds : Cur(f) = c /\ Token(c, k) \in Held(f)
InQueue(c, k)  == \E i \in 1 .. Len(queue) : queue[i].conn = c /\ queue[i].frame = k
InJob(c, k)    == job # NoJob /\ job.item.conn = c /\ job.item.frame = k
InInbox(c, k)  == \E i \in 1 .. Len(inbox[c]) : inbox[c][i].conn = c /\ inbox[c][i].frame = k

LEMMA ItemsConcat ==
  ASSUME NEW S, NEW s \in Seq(S), NEW t \in Seq(S)
  PROVE  Items(s \o t) = Items(s) \cup Items(t)
<1>1. PICK a \in Nat, b \in Nat : a = Len(s) /\ b = Len(t)
  BY LenProperties
<1>2. PICK w : /\ w = s \o t /\ Len(w) = a + b
               /\ \A i \in 1 .. a + b : w[i] = IF i <= a THEN s[i] ELSE t[i - a]
  <2>1. /\ Len(s \o t) = Len(s) + Len(t)
        /\ \A i \in 1 .. Len(s) + Len(t) : (s \o t)[i] = IF i <= Len(s) THEN s[i] ELSE t[i - Len(s)]
    BY ConcatProperties
  <2> QED
    BY <1>1, <2>1
<1>3. ASSUME NEW i \in 1 .. a + b PROVE w[i] \in Items(s) \cup Items(t)
  <2>1. CASE i <= a
    <3>1. i \in 1 .. Len(s) /\ w[i] = s[i]
      BY <1>1, <1>2, <2>1
    <3> QED
      BY <3>1 DEF Items
  <2>2. CASE i > a
    <3>1. i - a \in 1 .. Len(t) /\ w[i] = t[i - a]
      BY <1>1, <1>2, <2>2
    <3> QED
      BY <3>1 DEF Items
  <2> QED
    BY <2>1, <2>2
<1>4. ASSUME NEW i \in 1 .. a PROVE s[i] \in Items(w)
  <2>1. i \in 1 .. Len(w) /\ w[i] = s[i]
    BY <1>1, <1>2
  <2> QED
    BY <2>1 DEF Items
<1>5. ASSUME NEW i \in 1 .. b PROVE t[i] \in Items(w)
  <2>1. i + a \in 1 .. a + b /\ ~(i + a <= a) /\ (i + a) - a = i
    BY <1>1
  <2>2. i + a \in 1 .. Len(w) /\ w[i + a] = t[i]
    BY <1>2, <2>1
  <2> QED
    BY <2>2 DEF Items
<1>6. Items(w) \subseteq Items(s) \cup Items(t)
  BY <1>2, <1>3 DEF Items
<1>7. Items(s) \subseteq Items(w) /\ Items(t) \subseteq Items(w)
  BY <1>1, <1>4, <1>5 DEF Items
<1> QED
  BY <1>2, <1>6, <1>7

LEMMA ItemsOfPart ==
  ASSUME NEW S, NEW s \in Seq(S), NEW n \in Nat, n <= Len(s)
  PROVE  /\ Items(SubSeq(s, 1, n)) \subseteq Items(s)
         /\ Items(SubSeq(s, n + 1, Len(s))) \subseteq Items(s)
<1>1. SubSeq(s, 1, n) \in Seq(S) /\ SubSeq(s, n + 1, Len(s)) \in Seq(S)
      /\ SubSeq(s, 1, n) \o SubSeq(s, n + 1, Len(s)) = s
  BY CutSeq, RestOfSeq
<1>2. PICK a \in Seq(S), b \in Seq(S) :
         a = SubSeq(s, 1, n) /\ b = SubSeq(s, n + 1, Len(s)) /\ a \o b = s
  BY <1>1
<1>3. Items(a \o b) = Items(a) \cup Items(b)
  BY ItemsConcat
<1> QED
  BY <1>2, <1>3

LEMMA NoItems == Items(<<>>) = {}
BY DEF Items

\* What belongs to a connection leaves the way to the work queue or stays on it,
\* except for what its client sends.
LEMMA TokensStay ==
  ASSUME Shape, FramingStep, NEW c \in Conns, NEW k \in FrameNos, InStream(c, k)'
  PROVE  InStream(c, k) \/ (k = Len(sent[c]) + 1 /\ \E frame \in Frame : Send(c, frame))
<1>1. PICK f \in Fds : Cur(f)' = c /\ Token(c, k) \in Held(f)'
  BY DEF InStream, Token, U
<1>2. /\ \A g \in Fds : buf[g] \in Seq(Unit)
      /\ \A d \in Conns : unread[d] \in Seq(Unit) /\ flight[d] \in Seq(Unit)
      /\ sock \in [Fds -> Conns \cup {NONE}] /\ buf \in [Fds -> Seq(Unit)]
      /\ unread \in [Conns -> Seq(Unit)] /\ flight \in [Conns -> Seq(Unit)]
  BY DEF Shape, FramingTypeOK
<1>3. ASSUME Held(f)' \subseteq Held(f), Cur(f)' \in {Cur(f), NONE} PROVE InStream(c, k)
  BY <1>1, <1>3, NoConnIsNone DEF InStream
<1>4. ASSUME UNCHANGED <<sock, unread, flight, buf>>, parsing' \in {parsing, Idle} PROVE InStream(c, k)
  <2>1. Held(f)' = Held(f)
    BY <1>4 DEF Held, Rest
  <2>2. Cur(f)' \in {Cur(f), NONE}
    <3>1. Cur(f)' \in {Cur(f), sock[f]}
      BY <1>4, FdsAssumption DEF Cur, Idle
    <3> QED
      BY <3>1, CurIsConn
  <2> QED
    BY <1>3, <2>1, <2>2
<1>5. ASSUME NEW g \in Fds, Forget(g), parsing' \in {parsing, Idle},
             \A h \in Fds : buf'[h] \in {buf[h], <<>>}
      PROVE  InStream(c, k)
  <2>1. sock'[f] \in {sock[f], NONE} /\ \A d \in Conns : unread'[d] \in {unread[d], <<>>} /\ flight'[d] \in {flight[d], <<>>}
    BY <1>2, <1>5 DEF Forget
  <2>2. sock[f] \in Conns \cup {NONE}
    BY <1>2
  <2>3. Rest(f)' \subseteq Rest(f)
    BY <2>1, <2>2, NoItems DEF Rest
  <2>4. Held(f)' \subseteq Held(f)
    BY <1>5, <2>3, NoItems DEF Held
  <2>5. Cur(f)' \in {Cur(f), NONE}
    <3>1. Cur(f)' \in {Cur(f), sock[f], NONE}
      BY <1>5, <2>1 DEF Cur, Idle
    <3> QED
      BY <3>1, CurIsConn
  <2> QED
    BY <1>3, <2>4, <2>5
<1>6. ASSUME NEW d \in Conns, NEW frame \in Frame, Send(d, frame)
      PROVE  InStream(c, k) \/ (k = Len(sent[c]) + 1 /\ Send(c, frame))
  <2> DEFINE n == Len(sent[d]) + 1
  <2>1. /\ flight' = [flight EXCEPT ![d] = flight[d] \o Units(d, n, frame.len)]
        /\ UNCHANGED <<sock, unread, buf, parsing>> /\ Len(sent[d]) < MaxFrames
    BY <1>6 DEF Send, kernelVars, mainVars
  <2>2. n \in FrameNos /\ frame.len \in Lengths
    BY <2>1, BoundsAssumption, LenProperties DEF Shape, FramingTypeOK, FrameNos, Frame
  <2>3. /\ Units(d, n, frame.len) \in Seq(Unit)
        /\ \A i \in 1 .. Len(Units(d, n, frame.len)) : Units(d, n, frame.len)[i] = U(d, n, i)
    BY <2>2, UnitsOfFrame
  <2>4. Items(flight[d] \o Units(d, n, frame.len)) = Items(flight[d]) \cup Items(Units(d, n, frame.len))
    BY <1>2, <2>3, ItemsConcat
  <2>5. CASE Token(c, k) \in Items(Units(d, n, frame.len))
    <3>1. PICK i \in 1 .. Len(Units(d, n, frame.len)) : U(c, k, HeaderSize + 1) = U(d, n, i)
      BY <2>3, <2>5 DEF Items, Token
    <3>2. c = d /\ k = n
      BY <3>1 DEF U
    <3> QED
      BY <1>6, <3>2
  <2>6. CASE Token(c, k) \notin Items(Units(d, n, frame.len))
    <3>1. \A e \in Conns : Token(c, k) \in Items(flight'[e]) => Token(c, k) \in Items(flight[e])
      BY <1>2, <2>1, <2>4, <2>6
    <3>2. sock[f] \in Conns \cup {NONE}
      BY <1>2
    <3>3. Token(c, k) \in Held(f)
      BY <1>1, <2>1, <3>1, <3>2 DEF Held, Rest
    <3>4. Cur(f) = c
      BY <1>1, <2>1 DEF Cur
    <3> QED
      BY <3>3, <3>4 DEF InStream
  <2> QED
    BY <2>5, <2>6
<1>7. ASSUME NEW d \in Conns, Arrive(d) PROVE InStream(c, k)
  <2>1. PICK n \in 1 .. Len(flight[d]) :
           /\ unread' = [unread EXCEPT ![d] = unread[d] \o SubSeq(flight[d], 1, n)]
           /\ flight' = [flight EXCEPT ![d] = SubSeq(flight[d], n + 1, Len(flight[d]))]
           /\ UNCHANGED <<sock, buf, parsing>>
    BY <1>7 DEF Arrive, mainVars
  <2>2. n \in Nat /\ n <= Len(flight[d])
    BY <1>2, LenProperties
  <2>3. SubSeq(flight[d], 1, n) \in Seq(Unit) /\ Items(SubSeq(flight[d], 1, n)) \subseteq Items(flight[d])
        /\ Items(SubSeq(flight[d], n + 1, Len(flight[d]))) \subseteq Items(flight[d])
    BY <1>2, <2>2, CutSeq, ItemsOfPart
  <2>4. Items(unread[d] \o SubSeq(flight[d], 1, n)) = Items(unread[d]) \cup Items(SubSeq(flight[d], 1, n))
    <3>1. PICK w \in Seq(Unit) : w = SubSeq(flight[d], 1, n)
      BY <2>3
    <3>2. unread[d] \in Seq(Unit)
      BY <1>2
    <3>3. Items(unread[d] \o w) = Items(unread[d]) \cup Items(w)
      BY <3>2, ItemsConcat
    <3> QED
      BY <3>1, <3>3
  <2>5. \A e \in Conns : Items(unread'[e]) \cup Items(flight'[e]) \subseteq Items(unread[e]) \cup Items(flight[e])
    BY <1>2, <2>1, <2>3, <2>4
  <2>6. sock[f] \in Conns \cup {NONE}
    BY <1>2
  <2>7. Rest(f)' \subseteq Rest(f)
    BY <2>1, <2>5, <2>6 DEF Rest
  <2>8. Held(f)' \subseteq Held(f) /\ Cur(f)' = Cur(f)
    BY <2>1, <2>7 DEF Held, Cur
  <2> QED
    BY <1>3, <2>8
<1>8. ASSUME NEW d \in Conns, HungUp(d) PROVE InStream(c, k)
  <2>1. flight' = [flight EXCEPT ![d] = <<>>] /\ UNCHANGED <<sock, unread, buf, parsing>>
    BY <1>8 DEF HungUp, mainVars
  <2>2. \A e \in Conns : Items(flight'[e]) \subseteq Items(flight[e])
    BY <1>2, <2>1, NoItems
  <2>3. sock[f] \in Conns \cup {NONE}
    BY <1>2
  <2>4. Rest(f)' \subseteq Rest(f)
    BY <2>1, <2>2, <2>3 DEF Rest
  <2>5. Held(f)' \subseteq Held(f) /\ Cur(f)' = Cur(f)
    BY <2>1, <2>4 DEF Held, Cur
  <2> QED
    BY <1>3, <2>5
<1>9. ASSUME NEW g \in Fds, Accept(g) PROVE InStream(c, k)
  <2>1. /\ parsing = Idle /\ sock' = [sock EXCEPT ![g] = accepted + 1] /\ accepted + 1 \in Conns
        /\ UNCHANGED <<unread, flight, buf, parsing>> /\ accepted \in Nat
    BY <1>9, BoundsAssumption DEF Accept, clientVars, Shape, FramingTypeOK, Conns
  <2>2. CASE f # g
    <3>1. Held(f)' = Held(f) /\ Cur(f)' = Cur(f)
      BY <1>2, <2>1, <2>2 DEF Held, Rest, Cur
    <3> QED
      BY <1>3, <3>1
  <2>3. CASE f = g
    <3>1. c = accepted + 1 /\ sock'[f] = c
      BY <1>1, <1>2, <2>1, <2>3, FdsAssumption DEF Cur, Idle
    <3>2. unread[c] = <<>> /\ flight[c] = <<>>
      BY <2>1, <3>1 DEF Shape, Fresh
    <3>3. Token(c, k) \in Items(buf[f])
      BY <1>1, <2>1, <3>1, <3>2, NoItems, NoConnIsNone DEF Held, Rest
    <3>4. Token(c, k) \in SentUnits
      <4>1. buf[f] \in Seq(SentUnits)
        BY DEF Shape, Carried
      <4> QED
        BY <3>3, <4>1, ElementOfSeq DEF Items
    <3>5. c <= accepted
      BY <3>4 DEF SentUnits, Token, U
    <3> QED
      BY <2>1, <3>1, <3>5
  <2> QED
    BY <2>2, <2>3
<1>10. ASSUME NEW g \in Fds, Kick(g) PROVE InStream(c, k)
  <2>1. Forget(g) /\ parsing' = parsing /\ buf' = buf
    BY <1>10 DEF Kick, mainVars
  <2> QED
    BY <1>5, <2>1
<1>11. ASSUME NEW g \in Fds, Disconnect(g) PROVE InStream(c, k)
  <2>1. Forget(g) /\ parsing' = Idle /\ \A h \in Fds : buf'[h] \in {buf[h], <<>>}
    BY <1>2, <1>11 DEF Disconnect
  <2> QED
    BY <1>5, <2>1
<1>12. ASSUME NEW g \in Fds, Read(g) PROVE InStream(c, k)
  <2>1. PICK d \in Conns : d = sock[g]
    BY <1>2, <1>12 DEF Read
  <2>2. /\ buf' = [buf EXCEPT ![g] = buf[g] \o unread[d]]
        /\ unread' = [unread EXCEPT ![d] = <<>>]
        /\ parsing = Idle /\ parsing' = [fd |-> g, conn |-> d] /\ UNCHANGED <<sock, flight>>
    BY <1>12, <2>1 DEF Read, clientVars
  <2>3. Items(buf[g] \o unread[d]) = Items(buf[g]) \cup Items(unread[d])
    BY <1>2, ItemsConcat
  <2>4. Held(f)' \subseteq Held(f)
    <3>1. sock[f] \in Conns \cup {NONE} /\ d # NONE
      BY <1>2, NoConnIsNone
    <3>2. Rest(f)' \subseteq Rest(f)
      BY <1>2, <2>2, <3>1, NoItems DEF Rest
    <3>3. CASE f = g
      <4>1. Items(unread[d]) \subseteq Rest(f)
        BY <2>1, <3>1, <3>3 DEF Rest
      <4>2. Items(buf'[f]) = Items(buf[f]) \cup Items(unread[d])
        BY <1>2, <2>2, <2>3, <3>3
      <4> QED
        BY <3>2, <4>1, <4>2 DEF Held
    <3>4. CASE f # g
      BY <1>2, <2>2, <3>2, <3>4 DEF Held
    <3> QED
      BY <3>3, <3>4
  <2>5. Cur(f)' = Cur(f)
    BY <2>1, <2>2, FdsAssumption DEF Cur, Idle
  <2> QED
    BY <1>3, <2>4, <2>5
<1>13. ASSUME NEW g \in Fds, NEW n \in Nat, n <= Len(buf[g]), Drop(g, n),
              UNCHANGED <<sock, unread, flight, parsing>>
       PROVE  InStream(c, k)
  <2>1. buf'[g] = SubSeq(buf[g], n + 1, Len(buf[g])) /\ \A h \in Fds : h # g => buf'[h] = buf[h]
    BY <1>2, <1>13 DEF Drop
  <2>2. Items(buf'[f]) \subseteq Items(buf[f])
    BY <1>2, <1>13, <2>1, ItemsOfPart
  <2>3. Held(f)' \subseteq Held(f) /\ Cur(f)' = Cur(f)
    BY <1>13, <2>2 DEF Held, Rest, Cur
  <2> QED
    BY <1>3, <2>3
<1>14. ASSUME NEW g \in Fds, ExtractSkips(g) \/ ExtractRoutes(g) PROVE InStream(c, k)
  <2>1. \E n \in Nat : n <= Len(buf[g]) /\ Drop(g, n)
    <3>1. CASE ExtractSkips(g)
      <4>1. Drop(g, HeaderSize) /\ HeaderSize <= Len(buf[g]) /\ HeaderSize \in Nat
        BY <3>1, SizeAssumption, StreamType DEF ExtractSkips, At
      <4> QED
        BY <4>1
    <3>2. CASE ExtractRoutes(g)
      BY <3>2, ShapeRoutes
    <3> QED
      BY <1>14, <3>1, <3>2
  <2>2. UNCHANGED <<sock, unread, flight, parsing>>
    BY <1>14 DEF ExtractSkips, ExtractRoutes, clientVars, kernelVars
  <2> QED
    BY <1>13, <2>1, <2>2
<1>15. CASE EpollWait \/ (\E g \in Fds : ExtractWaits(g)) \/ TakeItem \/ UNCHANGED framingVars
  <2>1. UNCHANGED <<sock, unread, flight, buf>> /\ parsing' \in {parsing, Idle}
    BY <1>15 DEF EpollWait, ExtractWaits, TakeItem, framingVars, clientVars, kernelVars, mainVars
  <2> QED
    BY <1>4, <2>1
<1> QED
  BY <1>6, <1>7, <1>8, <1>9, <1>10, <1>11, <1>12, <1>14, <1>15 DEF FramingStep, Main, ReadEnds, ExtractEnds

\* What goes to the work queue is no longer on its way there.
LEMMA RoutedLeaves ==
  ASSUME Shape, FlowInv, NEW f \in Fds, ExtractRoutes(f), NEW k \in FrameNos, NEW c \in Conns,
         c = parsing.conn, NEW n \in Nat, HeaderSize < n, n <= Len(buf[f]), Drop(f, n),
         buf[f][HeaderSize + 1] = Token(c, k)
  PROVE  InStream(c, k) /\ ~InStream(c, k)'
<1>1. parsing.fd = f /\ UNCHANGED <<sock, unread, flight, parsing>>
  BY DEF ExtractRoutes, At, clientVars, kernelVars
<1>2. Cur(f) = c /\ c # NONE
  BY <1>1, NoConnIsNone DEF Cur
<1>3. PICK p \in Nat, l \in Nat : p = HeaderSize + 1 /\ l = Len(buf[f]) /\ p \in 1 .. l /\ p <= n
  <2>1. HeaderSize \in Nat /\ Len(buf[f]) \in Nat
    BY SizeAssumption, StreamType
  <2>2. HeaderSize + 1 \in Nat /\ HeaderSize + 1 \in 1 .. Len(buf[f]) /\ HeaderSize + 1 <= n
    BY <2>1
  <2> QED
    BY <2>1, <2>2
<1>4. InStream(c, k)
  <2>1. Token(c, k) \in Items(buf[f])
    BY <1>3 DEF Items
  <2> QED
    BY <1>2, <2>1 DEF InStream, Held
<1>5. SUFFICES ASSUME InStream(c, k)' PROVE FALSE
  BY <1>4
<1>6. PICK g \in Fds : Cur(g)' = c /\ Token(c, k) \in Held(g)'
  BY <1>5 DEF InStream, Token, U
<1>7. g = f
  <2>1. Cur(g) = c
    BY <1>1, <1>6 DEF Cur
  <2>2. CASE parsing.fd = g
    BY <1>1, <2>2
  <2>3. CASE parsing.fd # g
    <3>1. sock[g] = Cur(f)
      BY <1>2, <2>1, <2>3 DEF Cur
    <3> QED
      BY <1>2, <3>1, CurOwn
  <2> QED
    BY <2>2, <2>3
<1>8. PICK s \in Seq(Unit), m \in Nat : s = Stream(f) /\ m = Len(s) /\ Sorted(s)
  BY StreamType, LenProperties DEF FlowInv, FlowAt
<1>9. l <= m /\ \A i \in 1 .. l : s[i] = buf[f][i]
  BY <1>3, <1>8, StreamType
<1>10. ASSUME NEW j \in 1 .. m, j > n, s[j] = Token(c, k) PROVE FALSE
  <2>1. p \in 1 .. m /\ p < j /\ s[p] = Token(c, k)
    BY <1>3, <1>9, <1>10
  <2>2. Before(s[p], s[j])
    BY <1>8, <1>10, <2>1 DEF Sorted
  <2>3. k \in Nat /\ HeaderSize + 1 \in Nat
    BY SizeAssumption DEF FrameNos
  <2> QED
    BY <1>10, <2>1, <2>2, <2>3 DEF Before, Token, U
<1>11. Token(c, k) \notin Items(buf'[f])
  <2>1. buf[f] \in Seq(Unit) /\ buf'[f] = SubSeq(buf[f], n + 1, Len(buf[f]))
    BY DEF Drop, Shape, FramingTypeOK
  <2>2. PICK t : /\ t = SubSeq(buf[f], n + 1, Len(buf[f])) /\ Len(t) + n = Len(buf[f]) /\ Len(t) = Len(buf[f]) - n
                 /\ \A i \in 1 .. Len(t) : t[i] = buf[f][i + n]
    <3>1. /\ Len(SubSeq(buf[f], n + 1, Len(buf[f]))) + n = Len(buf[f])
          /\ Len(SubSeq(buf[f], n + 1, Len(buf[f]))) = Len(buf[f]) - n
          /\ \A i \in 1 .. Len(SubSeq(buf[f], n + 1, Len(buf[f]))) :
                SubSeq(buf[f], n + 1, Len(buf[f]))[i] = buf[f][i + n]
      BY <2>1, RestOfSeq
    <3> QED
      BY <3>1
  <2> SUFFICES ASSUME NEW i \in 1 .. Len(t), t[i] = Token(c, k) PROVE FALSE
    BY <2>1, <2>2 DEF Items
  <2>3. i + n \in 1 .. l /\ i + n > n /\ i + n \in 1 .. m
    BY <1>3, <1>9, <2>2
  <2>4. s[i + n] = Token(c, k)
    BY <1>9, <2>2, <2>3
  <2> QED
    BY <1>10, <2>3, <2>4
<1>12. Token(c, k) \notin Rest(f)
  <2>1. sock[f] \in Conns \cup {NONE} /\ NONE \notin Conns
    BY NoConnIsNone DEF Shape, FramingTypeOK
  <2>2. Rest(f) = Items(Behind(f))
    <3>1. CASE sock[f] = NONE
      BY <3>1, NoItems DEF Rest, Behind
    <3>2. CASE sock[f] \in Conns
      <4>1. unread[sock[f]] \in Seq(Unit) /\ flight[sock[f]] \in Seq(Unit)
        BY <3>2 DEF Shape, FramingTypeOK
      <4>2. Items(unread[sock[f]] \o flight[sock[f]]) = Items(unread[sock[f]]) \cup Items(flight[sock[f]])
        BY <4>1, ItemsConcat
      <4> QED
        BY <2>1, <3>2, <4>2 DEF Rest, Behind
    <3> QED
      BY <2>1, <3>1, <3>2
  <2> SUFFICES ASSUME NEW i \in 1 .. Len(Behind(f)), Behind(f)[i] = Token(c, k) PROVE FALSE
    BY <2>2 DEF Items
  <2>3. buf[f] \in Seq(SentUnits) /\ Behind(f) \in Seq(SentUnits) /\ s = buf[f] \o Behind(f)
    BY <1>8, StreamType DEF Stream
  <2>4. /\ m = Len(buf[f]) + Len(Behind(f)) /\ Len(Behind(f)) \in Nat
        /\ \A j \in 1 .. m : s[j] = IF j <= Len(buf[f]) THEN buf[f][j] ELSE Behind(f)[j - Len(buf[f])]
    BY <1>8, <2>3, ConcatProperties, LenProperties
  <2>5. i + l \in 1 .. m /\ i + l > n /\ ~(i + l <= l) /\ (i + l) - l = i
    BY <1>3, <2>4
  <2>6. s[i + l] = Token(c, k)
    BY <1>3, <2>4, <2>5
  <2> QED
    BY <1>10, <2>5, <2>6
<1>13. Held(f)' = Items(buf'[f]) \cup Rest(f)
  BY <1>1 DEF Held, Rest
<1> QED
  BY <1>6, <1>7, <1>11, <1>12, <1>13

----------------------------------------------------------------------------
(* Each request is in one place at most.                                       *)
Once ==
    \A c \in Conns, k \in FrameNos :
       /\ InStream(c, k) => ~InQueue(c, k) /\ ~InJob(c, k) /\ ~InInbox(c, k)
       /\ InQueue(c, k)  => ~InJob(c, k) /\ ~InInbox(c, k)
       /\ InJob(c, k)    => ~InInbox(c, k)

\* Nothing is queued twice, and nothing is answered twice.
Distinct ==
    /\ \A i, j \in 1 .. Len(queue) :
          queue[i].conn = queue[j].conn /\ queue[i].frame = queue[j].frame /\ queue[i].frame # 0 => i = j
    /\ \A c \in Conns : \A i, j \in 1 .. Len(inbox[c]) :
          inbox[c][i].conn = c /\ inbox[c][j].conn = c /\ inbox[c][i].frame = inbox[c][j].frame => i = j

\* An answer is one to a request that was sent, and says of a log-in that it
\* succeeded only if it did.
Truthful ==
    /\ job # NoJob /\ job.ok /\ sent[job.item.conn][job.item.frame].op = "login" =>
          [conn |-> job.item.conn, frame |-> job.item.frame] \in entered
    /\ \A c \in Conns : \A i \in 1 .. Len(inbox[c]) : inbox[c][i].conn = c =>
          /\ inbox[c][i].frame \in 1 .. Len(sent[c])
          /\ inbox[c][i].ok /\ sent[c][inbox[c][i].frame].op = "login" =>
                [conn |-> c, frame |-> inbox[c][i].frame] \in entered

Pending(c, k) == InStream(c, k) \/ InQueue(c, k) \/ InJob(c, k) \/ InInbox(c, k)

\* A program in its first menu has no request under way, and one that waits for
\* an answer has no other than the last, unless it took a packet for an answer
\* that was none.
Waits ==
    \A c \in Conns : client[c].kind # "raw" /\ c \notin misled =>
       \A k \in FrameNos : Pending(c, k) =>
          phase[c] # "menu" /\ (phase[c] = "wait" => k = Len(sent[c]))

LEMMA PendingWasSent ==
  ASSUME Typed, Truthful, NEW c \in Conns, NEW k \in FrameNos, Pending(c, k)
  PROVE  k \in 1 .. Len(sent[c])
<1>1. Len(sent[c]) \in Nat /\ k \in Nat \ {0}
  BY LenProperties DEF Typed, Shape, FramingTypeOK, FrameNos
<1>2. CASE InStream(c, k)
  <2>1. PICK f \in Fds : Token(c, k) \in Held(f)
    BY <1>2 DEF InStream
  <2>2. Held(f) \subseteq SentUnits
    <3>1. buf[f] \in Seq(SentUnits) /\ sock[f] \in Conns \cup {NONE}
      BY DEF Typed, Shape, Carried, FramingTypeOK
    <3>2. \A d \in Conns : unread[d] \in Seq(SentUnits) /\ flight[d] \in Seq(SentUnits)
      BY UnitsAreUnits, SeqMonotonic DEF Typed, Shape, Carried
    <3>3. \A s \in Seq(SentUnits) : Items(s) \subseteq SentUnits
      BY ElementOfSeq DEF Items
    <3> QED
      BY <3>1, <3>2, <3>3 DEF Held, Rest
  <2>3. Token(c, k) \in SentUnits
    BY <2>1, <2>2
  <2> QED
    BY <1>1, <2>3 DEF SentUnits, Token, U
<1>3. CASE InQueue(c, k)
  BY <1>1, <1>3 DEF InQueue, Typed, Asked
<1>4. CASE InJob(c, k)
  BY <1>1, <1>4 DEF InJob, Typed, Asked
<1>5. CASE InInbox(c, k)
  BY <1>5 DEF InInbox, Truthful
<1> QED
  BY <1>2, <1>3, <1>4, <1>5 DEF Pending

LEMMA AppendItems ==
  ASSUME NEW S, NEW s \in Seq(S), NEW e \in S
  PROVE  /\ Len(s) \in Nat /\ Len(Append(s, e)) = Len(s) + 1
         /\ \A i \in 1 .. Len(Append(s, e)) : \/ i \in 1 .. Len(s) /\ Append(s, e)[i] = s[i]
                                              \/ i = Len(s) + 1 /\ Append(s, e)[i] = e
<1>1. Len(s) \in Nat
  BY LenProperties
<1>2. /\ Len(Append(s, e)) = Len(s) + 1 /\ Append(s, e)[Len(s) + 1] = e
      /\ \A i \in 1 .. Len(s) : Append(s, e)[i] = s[i]
  BY AppendProperties
<1>3. \A i \in 1 .. Len(s) + 1 : i \in 1 .. Len(s) \/ i = Len(s) + 1
  BY <1>1
<1> QED
  BY <1>1, <1>2, <1>3

LEMMA TailItems ==
  ASSUME NEW S, NEW s \in Seq(S), s # <<>>
  PROVE  /\ Head(s) = s[1] /\ 1 \in 1 .. Len(s)
         /\ \A i \in 1 .. Len(Tail(s)) : i + 1 \in 1 .. Len(s) /\ i + 1 # 1 /\ Tail(s)[i] = s[i + 1]
<1>1. /\ Head(s) = s[1] /\ Len(Tail(s)) = Len(s) - 1
      /\ \A i \in 1 .. Len(Tail(s)) : Tail(s)[i] = s[i + 1]
  BY HeadTailProperties
<1>2. Len(s) \in Nat \ {0}
  BY EmptySeq
<1>3. 1 \in 1 .. Len(s) /\ \A i \in 1 .. Len(Tail(s)) : i + 1 \in 1 .. Len(s) /\ i + 1 # 1
  BY <1>1, <1>2
<1> QED
  BY <1>1, <1>3

\* What happens to the work queue, to the job and to an inbox.
QueueMoves ==
    \/ queue' = queue
    \/ queue # <<>> /\ queue' = Tail(queue)
    \/ \E r \in [fd : Fds, conn : Conns, frame : {0} \cup FrameNos] :
          /\ queue' = Append(queue, r)
          /\ r.frame # 0 => InStream(r.conn, r.frame) /\ ~InStream(r.conn, r.frame)'

LEMMA QueueMovesSo == Shape /\ FlowInv /\ FramingStep => QueueMoves
<1> SUFFICES ASSUME Shape, FlowInv, FramingStep PROVE QueueMoves
  OBVIOUS
<1>1. ASSUME NEW f \in Fds, ExtractRoutes(f)
      PROVE  \E r \in [fd : Fds, conn : Conns, frame : {0} \cup FrameNos] :
                /\ queue' = Append(queue, r)
                /\ r.frame # 0 => InStream(r.conn, r.frame) /\ ~InStream(r.conn, r.frame)'
  <2>1. PICK len \in Nat \ {0}, k \in {0} \cup FrameNos :
            /\ HeaderSize + len <= Len(buf[f]) /\ HeaderSize + len \in Nat
            /\ k # 0 => buf[f][HeaderSize + 1] = U(parsing.conn, k, HeaderSize + 1)
            /\ queue' = Append(queue, [fd |-> f, conn |-> parsing.conn, frame |-> k])
            /\ Drop(f, HeaderSize + len)
    BY <1>1, RouteOf
  <2>2. PICK c \in Conns : c = parsing.conn
    BY <1>1, CutWhere DEF ExtractRoutes, At
  <2>3. PICK r \in [fd : Fds, conn : Conns, frame : {0} \cup FrameNos] : r = [fd |-> f, conn |-> c, frame |-> k]
    OBVIOUS
  <2>4. HeaderSize < HeaderSize + len
    BY SizeAssumption
  <2>5. k # 0 => InStream(c, k) /\ ~InStream(c, k)'
    <3> SUFFICES ASSUME k # 0 PROVE InStream(c, k) /\ ~InStream(c, k)'
      OBVIOUS
    <3>1. k \in FrameNos /\ buf[f][HeaderSize + 1] = Token(c, k)
      BY <2>1, <2>2 DEF Token
    <3> QED
      BY <1>1, <2>1, <2>2, <2>4, <3>1, RoutedLeaves
  <2>6. queue' = Append(queue, r) /\ r.conn = c /\ r.frame = k
    BY <2>1, <2>2, <2>3
  <2>7. r.frame # 0 => InStream(r.conn, r.frame) /\ ~InStream(r.conn, r.frame)'
    BY <2>5, <2>6 DEF InStream, Token, U
  <2> QED
    BY <2>6, <2>7
<1>2. \/ queue' = queue \/ (queue # <<>> /\ queue' = Tail(queue))
      \/ \E f \in Fds : ExtractRoutes(f)
  BY DEF FramingStep, Send, Arrive, HungUp, Accept, Kick, Main, EpollWait, ReadEnds, Disconnect, Read,
         ExtractWaits, ExtractEnds, ExtractSkips, TakeItem, framingVars
<1> QED
  BY <1>1, <1>2 DEF QueueMoves

JobMoves == \/ job' = job
            \/ job' = NoJob
            \/ Handle /\ queue # <<>> /\ job'.item = Head(queue)

InboxMoves(c) ==
    \/ inbox'[c] = inbox[c]
    \/ inbox[c] # <<>> /\ inbox'[c] = Tail(inbox[c])
    \/ \E p \in Packet :
          /\ inbox'[c] = Append(inbox[c], p)
          /\ p.conn # NONE => /\ job # NoJob /\ job' = NoJob
                              /\ p.conn = job.item.conn /\ p.frame = job.item.frame /\ p.ok = job.ok

LEMMA JobMovesSo == Typed /\ [Next]_vars => JobMoves
<1> SUFFICES ASSUME Typed, [Next]_vars PROVE JobMoves
  OBVIOUS
<1>1. CASE Handle
  <2>1. queue # <<>>
    BY <1>1 DEF Handle
  <2> QED
    BY <1>1, <2>1, HandleDecides DEF Typed, JobMoves
<1>2. job' = job \/ job' = NoJob \/ Handle
  BY DEF Next, vars, serverVars, RawSend, RawHangUp, AskAndWait, Leave, Ask, Exit, Program, TakeAnswer,
         Join, ReceiverChecks, ReceiverGets, ReceiverFails, Transport, Connect, Notice, Ban, Network, Worker, Answer
<1> QED
  BY <1>1, <1>2 DEF JobMoves

LEMMA InboxMovesSo == Typed /\ [Next]_vars => \A c \in Conns : InboxMoves(c)
<1> SUFFICES ASSUME Typed, [Next]_vars, NEW c \in Conns PROVE InboxMoves(c)
  OBVIOUS
<1>1. ASSUME NEW f \in Fds, NEW p, SendTo(f, p) PROVE inbox'[c] = inbox[c] \/ inbox'[c] = Append(inbox[c], p)
  BY <1>1 DEF SendTo
<1>2. CASE Answer
  <2> DEFINE i == job.item
             type == AnswerType(client[i.conn].kind, sent[i.conn][i.frame].op)
  <2>1. /\ job # NoJob /\ job' = NoJob
        /\ SendTo(i.fd, [type |-> type, ok |-> job.ok, conn |-> i.conn, frame |-> i.frame])
    BY <1>2 DEF Answer
  <2>2. /\ job \in [item : [fd : Fds, conn : Conns, frame : FrameNos], ok : BOOLEAN]
        /\ sent[i.conn][i.frame].op \in {"login", "register"}
    BY <2>1 DEF Typed, Asked
  <2>3. type \in {"USER_LOGIN_RES", "SC_LOGIN_RES", "REGISTER_RES", "SC_ORDER_STATUS"}
    BY <2>2 DEF AnswerType
  <2>4. i \in [fd : Fds, conn : Conns, frame : FrameNos] /\ job.ok \in BOOLEAN
    BY <2>2
  <2> HIDE DEF i, type
  <2>5. PICK p \in Packet : p = [type |-> type, ok |-> job.ok, conn |-> i.conn, frame |-> i.frame]
    BY <2>3, <2>4 DEF Packet
  <2>6. SendTo(i.fd, p) /\ i.fd \in Fds
    BY <2>1, <2>4, <2>5
  <2>7. inbox'[c] = inbox[c] \/ inbox'[c] = Append(inbox[c], p)
    BY <1>1, <2>6
  <2>8. p.conn = job.item.conn /\ p.frame = job.item.frame /\ p.ok = job.ok
    BY <2>5 DEF i
  <2> QED
    BY <2>1, <2>7, <2>8 DEF InboxMoves
<1>3. ASSUME NEW f \in Fds, Notice(f) \/ Ban(f) PROVE InboxMoves(c)
  <2>1. \A type \in {"SC_ORDER_STATUS", "SC_LOGIN_RES"} :
           [type |-> type, ok |-> FALSE, conn |-> NONE, frame |-> 0] \in Packet
    BY DEF Packet
  <2>2. PICK type \in {"SC_ORDER_STATUS", "SC_LOGIN_RES"} :
           SendTo(f, [type |-> type, ok |-> FALSE, conn |-> NONE, frame |-> 0])
    BY <1>3 DEF Notice, Ban
  <2>3. PICK p \in Packet : p = [type |-> type, ok |-> FALSE, conn |-> NONE, frame |-> 0]
    BY <2>1
  <2>4. p.conn = NONE /\ (inbox'[c] = inbox[c] \/ inbox'[c] = Append(inbox[c], p))
    BY <1>1, <2>2, <2>3
  <2> QED
    BY <2>4 DEF InboxMoves
<1>4. ASSUME NEW d \in Conns, TakeAnswer(d) \/ ReceiverGets(d) PROVE InboxMoves(c)
  <2>1. inbox[d] # <<>> /\ inbox' = [inbox EXCEPT ![d] = Tail(@)]
    BY <1>4 DEF TakeAnswer, ReceiverGets
  <2> QED
    BY <2>1 DEF InboxMoves, Typed, InboxTypeOK
<1>5. \/ inbox' = inbox \/ Answer \/ (\E f \in Fds : Notice(f) \/ Ban(f))
      \/ \E d \in Conns : TakeAnswer(d) \/ ReceiverGets(d)
  BY DEF Next, vars, programVars, RawSend, RawHangUp, AskAndWait, Leave, Ask, Exit, Program,
         Join, ReceiverChecks, ReceiverFails, Transport, Connect, Network, Worker, Handle
<1>6. CASE inbox' = inbox
  BY <1>6 DEF InboxMoves
<1> QED
  BY <1>2, <1>3, <1>4, <1>5, <1>6

\* A request goes from each place to the next one only, and leaves it.
LEMMA PlaceMoves ==
  ASSUME Typed, FlowInv, Distinct, [Next]_vars, NEW c \in Conns, NEW k \in FrameNos
  PROVE  /\ InStream(c, k)' => InStream(c, k) \/ k = Len(sent[c]) + 1
         /\ InQueue(c, k)' => InQueue(c, k) \/ (InStream(c, k) /\ ~InStream(c, k)')
         /\ InJob(c, k)' => InJob(c, k) \/ (InQueue(c, k) /\ ~InQueue(c, k)')
         /\ InInbox(c, k)' => InInbox(c, k) \/ (InJob(c, k) /\ ~InJob(c, k)')
<1>1. FramingStep /\ Shape /\ QueueMoves /\ JobMoves /\ InboxMoves(c)
  BY Steps, QueueMovesSo, JobMovesSo, InboxMovesSo DEF Typed, ProgramTypeOK
<1>2. queue \in Seq([fd : Fds, conn : Conns, frame : {0} \cup FrameNos]) /\ k # 0
  BY <1>1 DEF Shape, FramingTypeOK, FrameNos
<1>3. InStream(c, k)' => InStream(c, k) \/ k = Len(sent[c]) + 1
  BY <1>1, TokensStay
<1>4. ASSUME InQueue(c, k)' PROVE InQueue(c, k) \/ (InStream(c, k) /\ ~InStream(c, k)')
  <2>1. PICK i \in 1 .. Len(queue') : queue'[i].conn = c /\ queue'[i].frame = k
    BY <1>4 DEF InQueue
  <2>2. CASE queue' = queue
    BY <2>1, <2>2 DEF InQueue
  <2>3. CASE queue # <<>> /\ queue' = Tail(queue)
    <3>1. i + 1 \in 1 .. Len(queue) /\ queue'[i] = queue[i + 1]
      BY <1>2, <2>1, <2>3, TailItems
    <3> QED
      BY <2>1, <3>1 DEF InQueue
  <2>4. ASSUME NEW r \in [fd : Fds, conn : Conns, frame : {0} \cup FrameNos], queue' = Append(queue, r),
               r.frame # 0 => InStream(r.conn, r.frame) /\ ~InStream(r.conn, r.frame)'
        PROVE  InQueue(c, k) \/ (InStream(c, k) /\ ~InStream(c, k)')
    <3>1. (i \in 1 .. Len(queue) /\ queue'[i] = queue[i]) \/ queue'[i] = r
      BY <1>2, <2>1, <2>4, AppendItems
    <3>2. CASE i \in 1 .. Len(queue) /\ queue'[i] = queue[i]
      BY <2>1, <3>2 DEF InQueue
    <3>3. CASE queue'[i] = r
      <4>1. r.conn = c /\ r.frame = k
        BY <2>1, <3>3
      <4>2. InStream(c, k) /\ ~InStream(c, k)'
        BY <1>2, <2>4, <4>1 DEF InStream, Token, U
      <4> QED
        BY <4>2
    <3> QED
      BY <3>1, <3>2, <3>3
  <2> QED
    BY <1>1, <2>2, <2>3, <2>4 DEF QueueMoves
<1>5. ASSUME InJob(c, k)' PROVE InJob(c, k) \/ (InQueue(c, k) /\ ~InQueue(c, k)')
  <2>1. job' # NoJob /\ job'.item.conn = c /\ job'.item.frame = k
    BY <1>5 DEF InJob, NoJob
  <2>2. CASE job' = job
    BY <2>1, <2>2 DEF InJob
  <2>3. CASE Handle /\ queue # <<>> /\ job'.item = Head(queue)
    <3>1. queue' = Tail(queue)
      BY <2>3 DEF Handle
    <3>2. queue[1].conn = c /\ queue[1].frame = k /\ 1 \in 1 .. Len(queue)
      BY <1>2, <2>1, <2>3, TailItems
    <3>3. InQueue(c, k)
      BY <3>2 DEF InQueue
    <3>4. ASSUME NEW i \in 1 .. Len(queue'), queue'[i].conn = c, queue'[i].frame = k PROVE FALSE
      <4>1. i + 1 \in 1 .. Len(queue) /\ i + 1 # 1 /\ queue'[i] = queue[i + 1]
        BY <1>2, <2>3, <3>1, TailItems
      <4> QED
        BY <1>2, <3>2, <3>4, <4>1 DEF Distinct
    <3> QED
      BY <3>3, <3>4 DEF InQueue
  <2> QED
    BY <1>1, <2>1, <2>2, <2>3 DEF JobMoves
<1>6. ASSUME InInbox(c, k)' PROVE InInbox(c, k) \/ (InJob(c, k) /\ ~InJob(c, k)')
  <2>1. PICK i \in 1 .. Len(inbox'[c]) : inbox'[c][i].conn = c /\ inbox'[c][i].frame = k
    BY <1>6 DEF InInbox
  <2>2. inbox[c] \in Seq(Packet)
    BY DEF Typed, InboxTypeOK
  <2>3. CASE inbox'[c] = inbox[c]
    BY <2>1, <2>3 DEF InInbox
  <2>4. CASE inbox[c] # <<>> /\ inbox'[c] = Tail(inbox[c])
    <3>1. i + 1 \in 1 .. Len(inbox[c]) /\ inbox'[c][i] = inbox[c][i + 1]
      BY <2>1, <2>2, <2>4, TailItems
    <3> QED
      BY <2>1, <3>1 DEF InInbox
  <2>5. ASSUME NEW p \in Packet, inbox'[c] = Append(inbox[c], p),
               p.conn # NONE => /\ job # NoJob /\ job' = NoJob
                                /\ p.conn = job.item.conn /\ p.frame = job.item.frame
        PROVE  InInbox(c, k) \/ (InJob(c, k) /\ ~InJob(c, k)')
    <3>1. (i \in 1 .. Len(inbox[c]) /\ inbox'[c][i] = inbox[c][i]) \/ inbox'[c][i] = p
      BY <2>1, <2>2, <2>5, AppendItems
    <3>2. CASE i \in 1 .. Len(inbox[c]) /\ inbox'[c][i] = inbox[c][i]
      BY <2>1, <3>2 DEF InInbox
    <3>3. CASE inbox'[c][i] = p
      BY <2>1, <2>5, <3>3, NoConnIsNone DEF InJob, NoJob
    <3> QED
      BY <3>1, <3>2, <3>3
  <2> QED
    BY <1>1, <2>3, <2>4, <2>5 DEF InboxMoves
<1> QED
  BY <1>3, <1>4, <1>5, <1>6

LEMMA OnceStep == Typed /\ FlowInv /\ Distinct /\ Truthful /\ Once /\ [Next]_vars => Once'
<1> SUFFICES ASSUME Typed, FlowInv, Distinct, Truthful, Once, [Next]_vars,
                    NEW c \in Conns, NEW k \in FrameNos
             PROVE  /\ InStream(c, k)' => ~InQueue(c, k)' /\ ~InJob(c, k)' /\ ~InInbox(c, k)'
                    /\ InQueue(c, k)'  => ~InJob(c, k)' /\ ~InInbox(c, k)'
                    /\ InJob(c, k)'    => ~InInbox(c, k)'
  BY DEF Once
<1>1. /\ InStream(c, k)' => InStream(c, k) \/ k = Len(sent[c]) + 1
      /\ InQueue(c, k)' => InQueue(c, k) \/ (InStream(c, k) /\ ~InStream(c, k)')
      /\ InJob(c, k)' => InJob(c, k) \/ (InQueue(c, k) /\ ~InQueue(c, k)')
      /\ InInbox(c, k)' => InInbox(c, k) \/ (InJob(c, k) /\ ~InJob(c, k)')
  BY PlaceMoves
<1>2. InStream(c, k) \/ InQueue(c, k) \/ InJob(c, k) \/ InInbox(c, k) => k # Len(sent[c]) + 1
  <2> SUFFICES ASSUME Pending(c, k) PROVE k # Len(sent[c]) + 1
    BY DEF Pending
  <2>1. k \in 1 .. Len(sent[c]) /\ Len(sent[c]) \in Nat
    BY PendingWasSent, LenProperties DEF Typed, Shape, FramingTypeOK
  <2> QED
    BY <2>1
<1>3. /\ InStream(c, k) => ~InQueue(c, k) /\ ~InJob(c, k) /\ ~InInbox(c, k)
      /\ InQueue(c, k)  => ~InJob(c, k) /\ ~InInbox(c, k)
      /\ InJob(c, k)    => ~InInbox(c, k)
  BY DEF Once
<1> QED
  BY <1>1, <1>2, <1>3

LEMMA DistinctStep == Typed /\ FlowInv /\ Distinct /\ Truthful /\ Once /\ [Next]_vars => Distinct'
<1> SUFFICES ASSUME Typed, FlowInv, Distinct, Truthful, Once, [Next]_vars PROVE Distinct'
  OBVIOUS
<1>1. FramingStep /\ Shape /\ QueueMoves /\ \A c \in Conns : InboxMoves(c)
  BY Steps, QueueMovesSo, InboxMovesSo DEF Typed, ProgramTypeOK
<1>2. queue \in Seq([fd : Fds, conn : Conns, frame : {0} \cup FrameNos])
  BY <1>1 DEF Shape, FramingTypeOK
<1>3. ASSUME NEW i \in 1 .. Len(queue'), NEW j \in 1 .. Len(queue'), queue'[i].conn = queue'[j].conn,
             queue'[i].frame = queue'[j].frame, queue'[i].frame # 0
      PROVE  i = j
  <2>1. CASE queue' = queue
    BY <1>3, <2>1 DEF Distinct
  <2>2. CASE queue # <<>> /\ queue' = Tail(queue)
    <3>1. /\ i + 1 \in 1 .. Len(queue) /\ queue'[i] = queue[i + 1]
          /\ j + 1 \in 1 .. Len(queue) /\ queue'[j] = queue[j + 1]
      BY <1>2, <2>2, TailItems
    <3>2. i + 1 = j + 1
      BY <1>3, <3>1 DEF Distinct
    <3> QED
      BY <3>2
  <2>3. ASSUME NEW r \in [fd : Fds, conn : Conns, frame : {0} \cup FrameNos], queue' = Append(queue, r),
               r.frame # 0 => InStream(r.conn, r.frame)
        PROVE  i = j
    <3>1. /\ (i \in 1 .. Len(queue) /\ queue'[i] = queue[i]) \/ (i = Len(queue) + 1 /\ queue'[i] = r)
          /\ (j \in 1 .. Len(queue) /\ queue'[j] = queue[j]) \/ (j = Len(queue) + 1 /\ queue'[j] = r)
      BY <1>2, <2>3, AppendItems
    <3>2. ASSUME NEW h \in 1 .. Len(queue), queue[h].conn = r.conn, queue[h].frame = r.frame, r.frame # 0
          PROVE  FALSE
      <4>1. r.conn \in Conns /\ r.frame \in FrameNos
        BY <3>2
      <4>2. InQueue(r.conn, r.frame) /\ InStream(r.conn, r.frame)
        BY <2>3, <3>2 DEF InQueue
      <4> QED
        BY <4>1, <4>2 DEF Once
    <3>3. CASE i \in 1 .. Len(queue) /\ j \in 1 .. Len(queue) /\ queue'[i] = queue[i] /\ queue'[j] = queue[j]
      BY <1>3, <3>3 DEF Distinct
    <3> QED
      BY <1>3, <3>1, <3>2, <3>3
  <2> QED
    BY <1>1, <2>1, <2>2, <2>3 DEF QueueMoves
<1>4. ASSUME NEW c \in Conns, NEW i \in 1 .. Len(inbox'[c]), NEW j \in 1 .. Len(inbox'[c]),
             inbox'[c][i].conn = c, inbox'[c][j].conn = c, inbox'[c][i].frame = inbox'[c][j].frame
      PROVE  i = j
  <2>1. inbox[c] \in Seq(Packet)
    BY DEF Typed, InboxTypeOK
  <2>2. CASE inbox'[c] = inbox[c]
    BY <1>4, <2>2 DEF Distinct
  <2>3. CASE inbox[c] # <<>> /\ inbox'[c] = Tail(inbox[c])
    <3>1. /\ i + 1 \in 1 .. Len(inbox[c]) /\ inbox'[c][i] = inbox[c][i + 1]
          /\ j + 1 \in 1 .. Len(inbox[c]) /\ inbox'[c][j] = inbox[c][j + 1]
      BY <2>1, <2>3, TailItems
    <3>2. i + 1 = j + 1
      BY <1>4, <3>1 DEF Distinct
    <3> QED
      BY <3>2
  <2>4. ASSUME NEW p \in Packet, inbox'[c] = Append(inbox[c], p),
               p.conn # NONE => job # NoJob /\ p.conn = job.item.conn /\ p.frame = job.item.frame
        PROVE  i = j
    <3>1. /\ (i \in 1 .. Len(inbox[c]) /\ inbox'[c][i] = inbox[c][i]) \/ (i = Len(inbox[c]) + 1 /\ inbox'[c][i] = p)
          /\ (j \in 1 .. Len(inbox[c]) /\ inbox'[c][j] = inbox[c][j]) \/ (j = Len(inbox[c]) + 1 /\ inbox'[c][j] = p)
      BY <2>1, <2>4, AppendItems
    <3>2. ASSUME NEW h \in 1 .. Len(inbox[c]), inbox[c][h].conn = c, p.conn = c, inbox[c][h].frame = p.frame
          PROVE  FALSE
      <4>1. InJob(c, p.frame)
        BY <2>4, <3>2, NoConnIsNone DEF InJob
      <4>2. p.frame \in FrameNos
        BY <4>1 DEF InJob, Typed, Asked
      <4>3. InInbox(c, p.frame)
        BY <3>2 DEF InInbox
      <4> QED
        BY <4>1, <4>2, <4>3 DEF Once
    <3>3. CASE i \in 1 .. Len(inbox[c]) /\ j \in 1 .. Len(inbox[c])
               /\ inbox'[c][i] = inbox[c][i] /\ inbox'[c][j] = inbox[c][j]
      BY <1>4, <3>3 DEF Distinct
    <3> QED
      BY <1>4, <3>1, <3>2, <3>3
  <2> QED
    BY <1>1, <2>2, <2>3, <2>4 DEF InboxMoves
<1> QED
  BY <1>3, <1>4 DEF Distinct

LEMMA TruthfulStep == Typed /\ Truthful /\ [Next]_vars => Truthful'
<1> SUFFICES ASSUME Typed, Truthful, [Next]_vars PROVE Truthful'
  OBVIOUS
<1>1. FramingStep /\ Shape /\ Asked /\ \A c \in Conns : InboxMoves(c)
  BY Steps, InboxMovesSo DEF Typed, ProgramTypeOK
<1>2. \A c \in Conns : /\ Len(sent[c]) \in Nat /\ Len(sent'[c]) \in Nat
                       /\ Len(sent[c]) <= Len(sent'[c])
                       /\ \A k \in 1 .. Len(sent[c]) : sent'[c][k] = sent[c][k]
  BY <1>1, SentStays, Zenon
<1>3. entered \subseteq entered'
  BY DEF Next, vars, serverVars, RawSend, RawHangUp, AskAndWait, Leave, Ask, Exit, Program, TakeAnswer, Join,
         ReceiverChecks, ReceiverGets, ReceiverFails, Transport, Connect, Notice, Ban, Network, Worker, Handle, Answer
<1>4. ASSUME job' # NoJob, job'.ok, sent'[job'.item.conn][job'.item.frame].op = "login"
      PROVE  [conn |-> job'.item.conn, frame |-> job'.item.frame] \in entered'
  <2>1. CASE job' = job
    <3>1. job.item.conn \in Conns /\ job.item.frame \in 1 .. Len(sent[job.item.conn])
      <4>1. /\ job \in [item : [fd : Fds, conn : Conns, frame : FrameNos], ok : BOOLEAN]
            /\ job.item.frame <= Len(sent[job.item.conn])
        BY <1>1, <1>4, <2>1 DEF Asked
      <4>2. job.item.conn \in Conns /\ job.item.frame \in Nat \ {0}
        BY <4>1 DEF FrameNos
      <4> QED
        BY <1>2, <4>1, <4>2
    <3>2. sent[job.item.conn][job.item.frame].op = "login"
      BY <1>2, <1>4, <2>1, <3>1
    <3> QED
      BY <1>3, <1>4, <2>1, <3>2 DEF Truthful
  <2>2. CASE Handle
    <3>1. sent' = sent
      BY <2>2 DEF Handle, clientVars
    <3>2. /\ job'.item = Head(queue)
          /\ \/ entered' = entered \cup {[conn |-> Head(queue).conn, frame |-> Head(queue).frame]}
             \/ job'.ok => sent[Head(queue).conn][Head(queue).frame].op = "register"
      BY <1>1, <1>4, <2>2, HandleDecides
    <3> QED
      BY <1>4, <3>1, <3>2
  <2>3. CASE Answer
    BY <1>4, <2>3 DEF Answer, NoJob
  <2>4. job' = job \/ Answer \/ Handle
    BY DEF Next, vars, serverVars, RawSend, RawHangUp, AskAndWait, Leave, Ask, Exit, Program, TakeAnswer,
           Join, ReceiverChecks, ReceiverGets, ReceiverFails, Transport, Connect, Notice, Ban, Network, Worker
  <2> QED
    BY <2>1, <2>2, <2>3, <2>4
<1> DEFINE Tells(c, p) == /\ p.frame \in 1 .. Len(sent[c])
                          /\ p.ok /\ sent[c][p.frame].op = "login" => [conn |-> c, frame |-> p.frame] \in entered
<1>5. ASSUME NEW c \in Conns, NEW p \in Packet, Tells(c, p)
      PROVE  /\ p.frame \in 1 .. Len(sent'[c])
             /\ p.ok /\ sent'[c][p.frame].op = "login" => [conn |-> c, frame |-> p.frame] \in entered'
  BY <1>2, <1>3, <1>5
<1>6. ASSUME NEW c \in Conns, NEW i \in 1 .. Len(inbox'[c]), inbox'[c][i].conn = c
      PROVE  \E p \in Packet : p = inbox'[c][i] /\ Tells(c, p)
  <2>1. inbox[c] \in Seq(Packet)
    BY DEF Typed, InboxTypeOK
  <2>2. ASSUME NEW j \in 1 .. Len(inbox[c]), inbox'[c][i] = inbox[c][j]
        PROVE  \E p \in Packet : p = inbox'[c][i] /\ Tells(c, p)
    <3>1. inbox[c][j] \in Packet
      BY <2>1, ElementOfSeq
    <3>2. Tells(c, inbox[c][j])
      BY <1>6, <2>2 DEF Truthful
    <3> QED
      BY <2>2, <3>1, <3>2
  <2>3. CASE inbox'[c] = inbox[c]
    BY <2>2, <2>3
  <2>4. CASE inbox[c] # <<>> /\ inbox'[c] = Tail(inbox[c])
    BY <2>1, <2>2, <2>4, TailItems
  <2>5. ASSUME NEW p \in Packet, inbox'[c] = Append(inbox[c], p),
               p.conn # NONE => job # NoJob /\ p.conn = job.item.conn /\ p.frame = job.item.frame /\ p.ok = job.ok
        PROVE  \E q \in Packet : q = inbox'[c][i] /\ Tells(c, q)
    <3>1. (i \in 1 .. Len(inbox[c]) /\ inbox'[c][i] = inbox[c][i]) \/ inbox'[c][i] = p
      BY <2>1, <2>5, AppendItems
    <3>2. CASE inbox'[c][i] = p
      <4>1. job # NoJob /\ c = job.item.conn /\ p.frame = job.item.frame /\ p.ok = job.ok
        BY <1>6, <2>5, <3>2, NoConnIsNone
      <4>2. p.frame \in FrameNos /\ p.frame <= Len(sent[c])
        BY <1>1, <4>1 DEF Asked
      <4>3. p.frame \in 1 .. Len(sent[c])
        BY <1>2, <4>2 DEF FrameNos
      <4>4. p.ok /\ sent[c][p.frame].op = "login" => [conn |-> c, frame |-> p.frame] \in entered
        BY <4>1 DEF Truthful
      <4> QED
        BY <3>2, <4>3, <4>4
    <3> QED
      BY <2>2, <3>1, <3>2
  <2> QED
    BY <1>1, <2>3, <2>4, <2>5 DEF InboxMoves
<1>7. ASSUME NEW c \in Conns, NEW i \in 1 .. Len(inbox'[c]), inbox'[c][i].conn = c
      PROVE  /\ inbox'[c][i].frame \in 1 .. Len(sent'[c])
             /\ inbox'[c][i].ok /\ sent'[c][inbox'[c][i].frame].op = "login" =>
                   [conn |-> c, frame |-> inbox'[c][i].frame] \in entered'
  <2>1. PICK p \in Packet : p = inbox'[c][i] /\ Tells(c, p)
    BY <1>6, <1>7
  <2> QED
    BY <1>5, <2>1
<1> QED
  BY <1>4, <1>7 DEF Truthful, NoJob

----------------------------------------------------------------------------
(* What the programs believe.                                                  *)
LEMMA PendingMoves ==
  ASSUME Typed, FlowInv, Distinct, [Next]_vars, NEW c \in Conns, NEW k \in FrameNos, Pending(c, k)'
  PROVE  Pending(c, k) \/ (k = Len(sent'[c]) /\ sent'[c] # sent[c])
<1>1. FramingStep /\ Shape
  BY Steps DEF Typed, ProgramTypeOK
<1>2. /\ InQueue(c, k)' => InQueue(c, k) \/ InStream(c, k)
      /\ InJob(c, k)' => InJob(c, k) \/ InQueue(c, k)
      /\ InInbox(c, k)' => InInbox(c, k) \/ InJob(c, k)
  BY PlaceMoves
<1>3. ASSUME InStream(c, k)' PROVE InStream(c, k) \/ (k = Len(sent'[c]) /\ sent'[c] # sent[c])
  <2>1. ASSUME NEW frame \in Frame, Send(c, frame), k = Len(sent[c]) + 1
        PROVE  k = Len(sent'[c]) /\ sent'[c] # sent[c]
    <3>1. sent[c] \in Seq(Frame) /\ Len(sent[c]) \in Nat /\ sent'[c] = Append(sent[c], frame)
      BY <1>1, <2>1, LenProperties DEF Send, Shape, FramingTypeOK
    <3>2. Len(Append(sent[c], frame)) = Len(sent[c]) + 1
      BY <3>1, AppendProperties
    <3>3. Len(sent'[c]) = Len(sent[c]) + 1
      BY <3>1, <3>2
    <3>4. Len(sent'[c]) # Len(sent[c])
      BY <3>1, <3>3
    <3> QED
      BY <2>1, <3>3, <3>4
  <2> QED
    BY <1>1, <1>3, <2>1, TokensStay
<1>4. InStream(c, k)' \/ InQueue(c, k)' \/ InJob(c, k)' \/ InInbox(c, k)'
  BY DEF Pending
<1> QED
  BY <1>2, <1>3, <1>4 DEF Pending

\* How a program gets from its menu to waiting and back.
LEMMA PhaseMoves ==
  ASSUME Typed, [Next]_vars, NEW c \in Conns, client[c].kind # "raw"
  PROVE  /\ client' = client /\ misled \subseteq misled' /\ entered \subseteq entered'
         /\ \/ phase'[c] = phase[c] /\ sent'[c] = sent[c]
            \/ phase[c] = "menu" /\ phase'[c] = "wait"
            \/ phase'[c] \in {"main", "join", "ended"}
            \/ TakeAnswer(c) /\ phase'[c] = "menu"
         /\ believes'[c] = believes[c] \/ (TakeAnswer(c) /\ Success(c, Head(inbox[c])) /\ believes'[c] = Len(sent[c]))
<1>1. /\ phase \in [Conns -> {"menu", "wait", "main", "join", "ended"}] /\ sent \in [Conns -> Seq(Frame)]
      /\ believes \in [Conns -> {0} \cup FrameNos] /\ client \in Casts
  BY DEF Typed, ProgramTypeOK, Shape, FramingTypeOK
<1> DEFINE Goal == /\ client' = client /\ misled \subseteq misled' /\ entered \subseteq entered'
                   /\ \/ phase'[c] = phase[c] /\ sent'[c] = sent[c]
                      \/ phase[c] = "menu" /\ phase'[c] = "wait"
                      \/ phase'[c] \in {"main", "join", "ended"}
                      \/ TakeAnswer(c) /\ phase'[c] = "menu"
                   /\ \/ believes'[c] = believes[c]
                      \/ TakeAnswer(c) /\ Success(c, Head(inbox[c])) /\ believes'[c] = Len(sent[c])
<1>2. ASSUME NEW d \in Conns, RawSend(d) \/ AskAndWait(d) \/ Ask(d) PROVE Goal
  <2>1. /\ \E op \in {"login", "register", "ask"} : Writes(d, op)
        /\ UNCHANGED <<client, believes, misled, entered>>
    BY <1>2 DEF RawSend, AskAndWait, Ask, Offers, programVars, serverVars
  <2>2. \E frame \in Frame : Send(d, frame)
    BY <1>1, <2>1, WritesSends
  <2>3. d # c => sent'[c] = sent[c]
    BY <1>1, <2>2 DEF Send
  <2>4. d = c => \/ phase[c] = "menu" /\ phase'[c] = "wait"
                 \/ phase'[c] = "main"
    BY <1>1, <1>2 DEF RawSend, AskAndWait, Ask, programVars
  <2>5. d # c => phase'[c] = phase[c]
    BY <1>1, <1>2 DEF RawSend, AskAndWait, Ask, programVars
  <2> QED
    BY <2>1, <2>3, <2>4, <2>5
<1>3. ASSUME NEW d \in Conns, RawHangUp(d) \/ Leave(d) \/ Exit(d) \/ Join(d) \/ ReceiverChecks(d)
                              \/ ReceiverGets(d) \/ ReceiverFails(d) \/ Transport(d)
      PROVE  Goal
  <2>1. sent' = sent /\ UNCHANGED <<client, believes, misled, entered>>
    BY <1>3 DEF RawHangUp, Leave, Exit, Join, ReceiverChecks, ReceiverGets, ReceiverFails, Transport,
                HungUp, Arrive, framingVars, clientVars, programVars, serverVars
  <2>2. phase' = phase \/ phase' = [phase EXCEPT ![d] = "ended"] \/ phase' = [phase EXCEPT ![d] = "join"]
    BY <1>3 DEF RawHangUp, Leave, Exit, Join, ReceiverChecks, ReceiverGets, ReceiverFails, Transport, programVars
  <2>3. phase'[c] = phase[c] \/ phase'[c] \in {"join", "ended"}
    BY <1>1, <2>2
  <2> QED
    BY <2>1, <2>3
<1>4. ASSUME NEW d \in Conns, TakeAnswer(d) PROVE Goal
  <2>1. /\ sent' = sent /\ UNCHANGED <<client, entered>> /\ misled \subseteq misled'
        /\ \/ /\ Success(d, Head(inbox[d])) /\ phase' = [phase EXCEPT ![d] = "main"]
              /\ believes' = [believes EXCEPT ![d] = Len(sent[d])]
           \/ believes' = believes /\ phase' = [phase EXCEPT ![d] = "menu"]
           \/ believes' = believes /\ phase' = [phase EXCEPT ![d] = "ended"]
    BY <1>4 DEF TakeAnswer, HungUp, framingVars, clientVars, serverVars
  <2>2. CASE d = c
    BY <1>1, <1>4, <2>1, <2>2
  <2>3. CASE d # c
    BY <1>1, <2>1, <2>3
  <2> QED
    BY <2>2, <2>3
<1>5. ASSUME NEW f \in Fds, Connect(f) \/ Notice(f) \/ Ban(f) PROVE Goal
  <2>1. UNCHANGED <<sent, client, phase, believes, misled, entered>>
    BY <1>5 DEF Connect, Notice, Ban, Accept, Kick, framingVars, clientVars, programVars, serverVars
  <2> QED
    BY <2>1
<1>6. CASE Network
  <2>1. UNCHANGED <<sent, client, phase, believes, misled, entered>>
    BY <1>6 DEF Network, Main, EpollWait, ReadEnds, Disconnect, Read, ExtractWaits, ExtractEnds,
                ExtractSkips, ExtractRoutes, clientVars, programVars
  <2> QED
    BY <2>1
<1>7. CASE Worker \/ UNCHANGED vars
  <2>1. UNCHANGED <<sent, client, phase, believes, misled>> /\ entered \subseteq entered'
    BY <1>7 DEF Worker, Handle, Answer, vars, framingVars, clientVars, programVars, serverVars
  <2> QED
    BY <2>1
<1>8. \/ \E d \in Conns : \/ RawSend(d) \/ AskAndWait(d) \/ Ask(d)
                          \/ RawHangUp(d) \/ Leave(d) \/ Exit(d) \/ Join(d) \/ ReceiverChecks(d)
                          \/ ReceiverGets(d) \/ ReceiverFails(d) \/ Transport(d)
                          \/ TakeAnswer(d)
      \/ \E f \in Fds : Connect(f) \/ Notice(f) \/ Ban(f)
      \/ Network
      \/ Worker \/ UNCHANGED vars
  BY DEF Next, Program
<1> QED
  BY <1>2, <1>3, <1>4, <1>5, <1>6, <1>7, <1>8

\* The answer that a waiting program takes is the one to its last request.
LEMMA TakenAnswer ==
  ASSUME Typed, Truthful, Waits, NEW c \in Conns, TakeAnswer(c), c \notin misled'
  PROVE  LET p == inbox[c][1] IN
         /\ inbox[c] \in Seq(Packet) /\ inbox[c] # <<>> /\ Head(inbox[c]) = p /\ 1 \in 1 .. Len(inbox[c])
         /\ inbox'[c] = Tail(inbox[c]) /\ p.conn = c /\ c \notin misled /\ client[c].kind # "raw" /\ phase[c] = "wait"
         /\ p.frame = Len(sent[c]) /\ p.frame \in FrameNos /\ p.frame \in 1 .. Len(sent[c])
<1>1. inbox[c] \in Seq(Packet) /\ inbox \in [Conns -> Seq(Packet)]
  BY DEF Typed, InboxTypeOK
<1>2. /\ inbox[c] # <<>> /\ inbox' = [inbox EXCEPT ![c] = Tail(@)] /\ phase[c] = "wait"
      /\ client[c].kind # "raw"
      /\ misled' = IF Head(inbox[c]).conn = c THEN misled ELSE misled \cup {c}
  BY DEF TakeAnswer, Console
<1>3. Head(inbox[c]) = inbox[c][1] /\ 1 \in 1 .. Len(inbox[c])
  BY <1>1, <1>2, TailItems
<1>4. inbox[c][1].conn = c /\ c \notin misled
  BY <1>2, <1>3
<1>5. inbox[c][1] \in Packet
  BY <1>1, <1>3, ElementOfSeq
<1>6. inbox[c][1].frame \in 1 .. Len(sent[c])
  BY <1>3, <1>4 DEF Truthful
<1>7. inbox[c][1].frame \in FrameNos
  <2>1. inbox[c][1].frame \in {0} \cup FrameNos
    BY <1>5 DEF Packet
  <2> QED
    BY <1>6, <2>1
<1>8. InInbox(c, inbox[c][1].frame)
  BY <1>3, <1>4 DEF InInbox
<1>9. inbox[c][1].frame = Len(sent[c])
  BY <1>2, <1>4, <1>7, <1>8 DEF Waits, Pending
<1>10. inbox'[c] = Tail(inbox[c])
  BY <1>1, <1>2
<1> QED
  BY <1>1, <1>2, <1>3, <1>4, <1>6, <1>7, <1>9, <1>10

LEMMA WaitsStep == Typed /\ FlowInv /\ Distinct /\ Truthful /\ Once /\ Waits /\ [Next]_vars => Waits'
<1> SUFFICES ASSUME Typed, FlowInv, Distinct, Truthful, Once, Waits, [Next]_vars,
                    NEW c \in Conns, client'[c].kind # "raw", c \notin misled',
                    NEW k \in FrameNos, Pending(c, k)'
             PROVE  phase'[c] # "menu" /\ (phase'[c] = "wait" => k = Len(sent'[c]))
  BY DEF Waits
<1>1. client[c].kind # "raw"
  <2>1. client'[c].kind # "raw"
    BY Zenon
  <2>2. client' = client
    BY DEF Next, vars, serverVars, RawSend, RawHangUp, AskAndWait, Leave, Ask, Exit, Program, TakeAnswer, Join,
           ReceiverChecks, ReceiverGets, ReceiverFails, Transport, Connect, Notice, Ban, Network, Worker, Handle, Answer
  <2> QED
    BY <2>1, <2>2, Zenon
<1>2. /\ misled \subseteq misled'
      /\ \/ phase'[c] = phase[c] /\ sent'[c] = sent[c]
         \/ phase[c] = "menu" /\ phase'[c] = "wait"
         \/ phase'[c] \in {"main", "join", "ended"}
         \/ TakeAnswer(c) /\ phase'[c] = "menu"
  BY <1>1, PhaseMoves
<1>3. c \notin misled /\ (Pending(c, k) => phase[c] # "menu" /\ (phase[c] = "wait" => k = Len(sent[c])))
  BY <1>1, <1>2 DEF Waits
<1>4. Pending(c, k) \/ (k = Len(sent'[c]) /\ sent'[c] # sent[c])
  BY PendingMoves
<1>5. CASE TakeAnswer(c) /\ phase'[c] = "menu"
  <2>1. PICK p : /\ p = inbox[c][1] /\ inbox[c] \in Seq(Packet) /\ inbox[c] # <<>> /\ 1 \in 1 .. Len(inbox[c])
                 /\ inbox'[c] = Tail(inbox[c]) /\ p.conn = c /\ phase[c] = "wait" /\ p.frame = Len(sent[c])
    BY <1>5, TakenAnswer
  <2>2. sent'[c] = sent[c]
    BY <1>5 DEF TakeAnswer, HungUp, framingVars, clientVars
  <2>3. p.frame = k /\ InInbox(c, k)
    BY <1>3, <1>4, <2>1, <2>2 DEF InInbox
  <2>4. ~InStream(c, k) /\ ~InQueue(c, k) /\ ~InJob(c, k)
    BY <2>3 DEF Once
  <2>5. InInbox(c, k)'
    <3>1. /\ InStream(c, k)' => InStream(c, k) \/ k = Len(sent[c]) + 1
          /\ InQueue(c, k)' => InQueue(c, k) \/ InStream(c, k)
          /\ InJob(c, k)' => InJob(c, k) \/ InQueue(c, k)
      BY PlaceMoves
    <3>2. k # Len(sent[c]) + 1
      <4>1. Len(sent[c]) \in Nat /\ k = Len(sent[c])
        BY <2>1, <2>3, LenProperties DEF Typed, Shape, FramingTypeOK
      <4> QED
        BY <4>1
    <3>3. InStream(c, k)' \/ InQueue(c, k)' \/ InJob(c, k)' \/ InInbox(c, k)'
      BY DEF Pending
    <3> QED
      BY <2>4, <3>1, <3>2, <3>3
  <2>6. PICK i \in 1 .. Len(inbox'[c]) : inbox'[c][i].conn = c /\ inbox'[c][i].frame = k
    BY <2>5 DEF InInbox
  <2>7. i + 1 \in 1 .. Len(inbox[c]) /\ i + 1 # 1 /\ inbox'[c][i] = inbox[c][i + 1]
    BY <2>1, <2>6, TailItems
  <2> QED
    BY <2>1, <2>3, <2>6, <2>7 DEF Distinct
<1>6. CASE phase'[c] = phase[c] /\ sent'[c] = sent[c]
  BY <1>3, <1>4, <1>6
<1>7. CASE phase[c] = "menu" /\ phase'[c] = "wait"
  BY <1>3, <1>4, <1>7
<1>8. CASE phase'[c] \in {"main", "join", "ended"}
  BY <1>8
<1> QED
  BY <1>2, <1>5, <1>6, <1>7, <1>8

LEMMA BelievesStep == Typed /\ Truthful /\ Waits /\ BelievesRightly /\ [Next]_vars => BelievesRightly'
<1> SUFFICES ASSUME Typed, Truthful, Waits, BelievesRightly, [Next]_vars, NEW c \in Conns, believes'[c] # 0
             PROVE  [conn |-> c, frame |-> believes'[c]] \in entered' \/ c \in misled'
  BY DEF BelievesRightly
<1>1. CASE client[c].kind = "raw"
  <2>1. believes'[c] = believes[c] /\ misled \subseteq misled' /\ entered \subseteq entered'
    <3>1. believes \in [Conns -> {0} \cup FrameNos]
      BY DEF Typed, ProgramTypeOK
    <3> QED
      BY <1>1, <3>1
         DEF Next, vars, programVars, serverVars, RawSend, RawHangUp, AskAndWait, Leave, Ask, Exit, Program, Console,
             TakeAnswer, Join, ReceiverChecks, ReceiverGets, ReceiverFails, Transport, Connect, Notice, Ban,
             Network, Worker, Handle, Answer
  <2>2. believes[c] # 0 => [conn |-> c, frame |-> believes[c]] \in entered \/ c \in misled
    BY DEF BelievesRightly
  <2>3. believes'[c] # 0
    OBVIOUS
  <2> QED
    BY <2>1, <2>2, <2>3, Zenon
<1>2. CASE client[c].kind # "raw"
  <2>1. /\ misled \subseteq misled' /\ entered \subseteq entered'
        /\ believes'[c] = believes[c] \/ (TakeAnswer(c) /\ Success(c, Head(inbox[c])) /\ believes'[c] = Len(sent[c]))
    BY <1>2, PhaseMoves
  <2>2. CASE believes'[c] = believes[c]
    BY <2>1, <2>2 DEF BelievesRightly
  <2>3. CASE TakeAnswer(c) /\ Success(c, Head(inbox[c])) /\ believes'[c] = Len(sent[c]) /\ c \notin misled'
    <3>1. PICK p : /\ p = inbox[c][1] /\ Head(inbox[c]) = p /\ 1 \in 1 .. Len(inbox[c])
                   /\ p.conn = c /\ p.frame = Len(sent[c])
      BY <2>3, TakenAnswer
    <3>2. p.ok /\ sent[c][Len(sent[c])].op = "login"
      BY <2>3, <3>1 DEF Success, Last
    <3>3. [conn |-> c, frame |-> Len(sent[c])] \in entered
      BY <3>1, <3>2 DEF Truthful
    <3> QED
      BY <2>1, <2>3, <3>3
  <2> QED
    BY <2>1, <2>2, <2>3
<1> QED
  BY <1>1, <1>2

----------------------------------------------------------------------------
ClientInv == /\ Typed /\ FlowInv
             /\ Once /\ Distinct /\ Truthful /\ Waits /\ BelievesRightly

LEMMA InitClientInv == Init => ClientInv
<1> SUFFICES ASSUME Init PROVE ClientInv
  OBVIOUS
<1>1. Typed /\ FlowInv
  BY InitTyped, InitFlow DEF Init
<1>2. /\ \A f \in Fds : buf[f] = <<>> /\ sock[f] = NONE
      /\ queue = <<>> /\ job = NoJob
      /\ \A c \in Conns : inbox[c] = <<>> /\ believes[c] = 0
  BY DEF Init, FramingInit
<1>3. ASSUME NEW c \in Conns, NEW k \in FrameNos
      PROVE  ~InStream(c, k) /\ ~InQueue(c, k) /\ ~InJob(c, k) /\ ~InInbox(c, k)
  BY <1>2, NoItems DEF InStream, Held, Rest, InQueue, InJob, InInbox
<1>4. Once /\ Waits
  BY <1>3 DEF Once, Waits, Pending
<1>5. Distinct /\ Truthful /\ BelievesRightly
  BY <1>2 DEF Distinct, Truthful, BelievesRightly
<1> QED
  BY <1>1, <1>4, <1>5 DEF ClientInv

LEMMA ClientInvStep == ClientInv /\ [Next]_vars => ClientInv'
<1> SUFFICES ASSUME ClientInv, [Next]_vars PROVE ClientInv'
  OBVIOUS
<1>1. FramingStep /\ Shape
  BY Steps DEF ClientInv, Typed, ProgramTypeOK
<1>2. Typed' /\ FlowInv'
  BY <1>1, TypedStep, FlowStep DEF ClientInv
<1>3. Once' /\ Distinct' /\ Truthful' /\ Waits' /\ BelievesRightly'
  BY OnceStep, DistinctStep, TruthfulStep, WaitsStep, BelievesStep DEF ClientInv
<1> QED
  BY <1>2, <1>3 DEF ClientInv

LEMMA ClientInvHolds == Spec => []ClientInv
BY InitClientInv, ClientInvStep, PTL DEF Spec

(* The state has its type, and the epoll thread only works on an fd number it   *)
(* has a state for (connections_ of src/net/ConnectionManager.cpp).             *)
THEOREM ClientsTyped == Spec => []TypeOK
<1>1. ClientInv => TypeOK
  BY TypeOKParts DEF ClientInv, Typed, Shape
<1> QED
  BY <1>1, ClientInvHolds, PTL

(* What extractAndRoutePackets keeps, for any number of fds, frames and lengths: *)
(* the buffer of an fd number, its socket and what is under way to it are one    *)
(* stream of whole frames that starts with the first frame not yet handed over,  *)
(* and more than Limit at the server has not gone unnoticed.                     *)
THEOREM StreamsWhole == Spec => []FlowInv
BY ClientInvHolds, PTL DEF ClientInv

(* Framing implements FrameChannel: the frames that come out of                 *)
(* extractAndRoutePackets are those sendPacket wrote, in their order, each once, *)
(* and the epoll thread ends a connection only for a cause.                     *)
THEOREM FramesWhole == Spec => ChannelSpec
<1>1. Init => Channel!Init
  BY InitChannel DEF Init
<1>2. ClientInv /\ [Next]_vars => [Channel!Next]_(Channel!vars)
  <2> SUFFICES ASSUME ClientInv, [Next]_vars PROVE [Channel!Next]_(Channel!vars)
    OBVIOUS
  <2>1. FramingStep /\ Shape /\ FlowInv
    BY Steps DEF ClientInv, Typed, ProgramTypeOK
  <2> QED
    BY <2>1, ChannelStep
<1> QED
  BY <1>1, <1>2, ClientInvHolds, PTL DEF Spec, ChannelSpec, Channel!Spec

(* A request is on its way to the work queue, in it, with a worker or answered, *)
(* never two of these at a time, and it is queued and answered once.            *)
THEOREM RequestsOnce == Spec => [](Once /\ Distinct)
BY ClientInvHolds, PTL DEF ClientInv

\* A step takes a request from the stream to the queue, to a worker, to its client
\* or out of sight, and never back.
Onward(c, k) ==
    /\ InQueue(c, k) => ~InStream(c, k)'
    /\ InJob(c, k)   => ~InStream(c, k)' /\ ~InQueue(c, k)'
    /\ InInbox(c, k) => ~InStream(c, k)' /\ ~InQueue(c, k)' /\ ~InJob(c, k)'
    /\ k \in 1 .. Len(sent[c]) /\ ~Pending(c, k) => ~Pending(c, k)'

LEMMA OnwardStep ==
  ASSUME ClientInv, [Next]_vars, NEW c \in Conns, NEW k \in FrameNos
  PROVE  Onward(c, k)
<1>1. /\ InStream(c, k)' => InStream(c, k) \/ k = Len(sent[c]) + 1
      /\ InQueue(c, k)' => InQueue(c, k) \/ InStream(c, k)
      /\ InJob(c, k)' => InJob(c, k) \/ InQueue(c, k)
      /\ InInbox(c, k)' => InInbox(c, k) \/ InJob(c, k)
  BY PlaceMoves DEF ClientInv
<1>2. /\ InStream(c, k) => ~InQueue(c, k) /\ ~InJob(c, k) /\ ~InInbox(c, k)
      /\ InQueue(c, k)  => ~InJob(c, k) /\ ~InInbox(c, k)
      /\ InJob(c, k)    => ~InInbox(c, k)
  BY DEF ClientInv, Once
<1>3. k \in 1 .. Len(sent[c]) => k # Len(sent[c]) + 1
  <2>1. Len(sent[c]) \in Nat
    BY LenProperties DEF ClientInv, Typed, Shape, FramingTypeOK
  <2> QED
    BY <2>1
<1>4. Pending(c, k) => k \in 1 .. Len(sent[c])
  BY PendingWasSent DEF ClientInv
<1>5. Pending(c, k) <=> InStream(c, k) \/ InQueue(c, k) \/ InJob(c, k) \/ InInbox(c, k)
  BY DEF Pending
<1>6. Pending(c, k)' <=> InStream(c, k)' \/ InQueue(c, k)' \/ InJob(c, k)' \/ InInbox(c, k)'
  BY DEF Pending
<1> QED
  BY <1>1, <1>2, <1>3, <1>4, <1>5, <1>6 DEF Onward

(* No request is queued, handled or answered a second time, however late: what   *)
(* a worker has taken is not in the queue again, what was answered not with a    *)
(* worker again, and a request that has gone is not seen any more, although its  *)
(* fd number and the receive buffer behind it go on to the next client.          *)
THEOREM RequestsGoOnward == Spec => [][\A c \in Conns, k \in FrameNos : Onward(c, k)]_vars
<1>1. ClientInv /\ [Next]_vars => \A c \in Conns, k \in FrameNos : Onward(c, k)
  BY OnwardStep
<1> QED
  BY <1>1, ClientInvHolds, PTL DEF Spec

(* Whoever a console program says is logged in has logged in, unless the program *)
(* took another packet for its answer (recvPacket of clients/NetClient.cpp).     *)
THEOREM RightlyBelieved == Spec => []BelievesRightly
BY ClientInvHolds, PTL DEF ClientInv

----------------------------------------------------------------------------
(* The image server.  The invariants are not inductive: what keeps a file that *)
(* is named safe from an overlapping upload is that a path, once read, belongs  *)
(* to an upload that can never write its name again.                            *)

\* Uploads that will not write the row any more.
Past == {"delete", "done", "failed", "crashed"}

\* A row names a file of an upload that is past its UPDATE: of its own menu, unless
\* a client registered a menu with the path.
RowInv ==
    \A m \in Menus : LET p == imgPath[m]
                     IN  /\ p \in Strays => p \in registered
                         /\ p \in Uploads =>
                               /\ pc[p] \in Past
                               /\ p \in files \/ (p \in registered /\ Replaced(p))
                               /\ menu[p] = m \/ p \in registered

\* The row and the file are there before the UPDATE.
SavedInv ==
    /\ \A u \in Uploads : pc[u] \in {"save", "update"} => menu[u] \in rows
    /\ \A u \in Uploads : pc[u] = "update" => u \in files

\* A path that was read names such an upload, and is current or replaced.
PathInv ==
    \A r \in Requests : LET p == path[r]
                        IN  /\ p \in Strays => p \in registered
                            /\ p \in Uploads =>
                                  /\ pc[p] \in Past
                                  /\ menu[p] = menu[r] \/ p \in registered
                                  /\ imgPath[menu[r]] = p \/ Replaced(p)

\* An upload about to delete its old path is not deleting a current one, unless a
\* client registered a menu with it.
DeleteInv ==
    \A u \in Uploads : pc[u] = "delete" /\ path[u] \in Uploads =>
       /\ Replaced(path[u])
       /\ path[u] \in registered \/ \A m \in Menus : imgPath[m] # path[u]

\* Who replaced a path, and whose path was replaced, are past their UPDATE.
ReplacedInv ==
    \A u \in Uploads : replacedBy[u] # NoImage =>
       /\ pc[u] \in Past /\ pc[replacedBy[u]] \in Past
       /\ menu[replacedBy[u]] = menu[u] \/ u \in registered

ReadInv ==
    \A d \in Downloads :
       /\ pc[d] \in {"look", "missing"} => path[d] # NoImage
       /\ pc[d] \in {"open", "broken"} => path[d] \in Uploads

ImageInv ==
    /\ ImageTypeOK /\ RowInv /\ SavedInv /\ PathInv /\ DeleteInv /\ ReplacedInv /\ ReadInv
    /\ MissingMeansReplaced /\ ReplacedFileGoes

USE DEF Requests, Paths, Goto, Fail, Past

(* The initial states satisfy the inductive invariant. *)
LEMMA InitImageInv == ImageInit => ImageInv
BY NoImageAssumption, StraysAssumption, MaxFailuresAssumption
   DEF ImageInit, ImageInv, ImageTypeOK, RowInv, SavedInv, PathInv, DeleteInv, ReplacedInv, ReadInv,
       MissingMeansReplaced, ReplacedFileGoes

(* Types are kept by every step. *)
LEMMA TypeStep == ImageTypeOK /\ SavedInv /\ [ImageNext]_imageVars => ImageTypeOK'
<1> SUFFICES ASSUME ImageTypeOK, SavedInv, [ImageNext]_imageVars PROVE ImageTypeOK'
  OBVIOUS
<1> USE NoImageAssumption, MaxFailuresAssumption, RequestsAssumption DEF ImageTypeOK
<1>1. CASE \E u \in Uploads : Select(u)
  BY <1>1 DEF Select
<1>2. CASE \E u \in Uploads : Save(u)
  BY <1>2 DEF Save
<1>3. CASE \E u \in Uploads : Update(u)
  BY <1>3 DEF Update, SavedInv
<1>4. CASE \E u \in Uploads : Delete(u)
  BY <1>4 DEF Delete
<1>5. CASE \E d \in Downloads : ReadPath(d)
  BY <1>5 DEF ReadPath
<1>6. CASE \E d \in Downloads : LookForFile(d) \/ OpenFile(d)
  BY <1>6 DEF LookForFile, OpenFile
<1>7. CASE Crash
  BY <1>7 DEF Crash
<1>8. CASE UNCHANGED imageVars
  BY <1>8 DEF imageVars
<1>9. CASE \E m \in Menus : Register(m)
  BY <1>9 DEF Register, Published
<1>10. QED
  BY <1>1, <1>2, <1>3, <1>4, <1>5, <1>6, <1>7, <1>8, <1>9 DEF ImageNext

(* Every step keeps the inductive invariant. *)
LEMMA StepImageInv == ImageInv /\ [ImageNext]_imageVars => ImageInv'
<1> SUFFICES ASSUME ImageInv, [ImageNext]_imageVars PROVE ImageInv'
  OBVIOUS
<1> ImageTypeOK /\ ImageTypeOK'
  BY TypeStep DEF ImageInv
<1> USE NoImageAssumption, StraysAssumption, RequestsAssumption DEF ImageTypeOK
<1> USE DEF RowInv, SavedInv, PathInv, DeleteInv, ReplacedInv, ReadInv, Replaced,
        MissingMeansReplaced, ReplacedFileGoes
<1>1. ASSUME NEW u \in Uploads, Select(u) PROVE ImageInv'
  BY <1>1 DEF ImageInv, Select
<1>2. ASSUME NEW u \in Uploads, Save(u) PROVE ImageInv'
  BY <1>2 DEF ImageInv, Save
<1>3. ASSUME NEW u \in Uploads, Update(u) PROVE ImageInv'
  <2> USE DEF Update
  <2>1. CASE pc'[u] = "failed"
    <3>1. /\ UNCHANGED <<rows, imgPath, files, menu, path, replacedBy, registered>>
          /\ pc' = [pc EXCEPT ![u] = "failed"]
      BY <1>3, <2>1
    <3>2. QED
      BY <1>3, <3>1 DEF ImageInv
  <2>2. CASE pc'[u] # "failed"
    <3> DEFINE m == menu[u]
               old == imgPath[m]
    <3>1. /\ pc[u] = "update" /\ pc' = [pc EXCEPT ![u] = "delete"]
          /\ imgPath' = [imgPath EXCEPT ![m] = u]
          /\ replacedBy' = IF old \in Uploads THEN [replacedBy EXCEPT ![old] = u] ELSE replacedBy
          /\ UNCHANGED <<rows, files, menu, path, registered>>
      BY <1>3, <2>2
    <3>2. m \in Menus /\ old \in Paths /\ u \in Requests /\ u # NoImage
      OBVIOUS
    <3>3. \A v \in Uploads : replacedBy[v] # NoImage => replacedBy'[v] # NoImage
      BY <3>1, <3>2
    <3>4. \A m2 \in Menus : imgPath'[m2] = (IF m2 = m THEN u ELSE imgPath[m2])
      BY <3>1, <3>2
    <3>5. RowInv'
      <4>1. u \in files
        BY <1>3, <3>1 DEF ImageInv
      <4>2. QED
        BY <4>1, <3>1, <3>2, <3>3, <3>4 DEF ImageInv
    <3>6. PathInv'
      BY <3>1, <3>2, <3>3, <3>4 DEF ImageInv
    <3>7. DeleteInv'
      BY <3>1, <3>2, <3>3, <3>4 DEF ImageInv
    <3>8. ReplacedInv'
      BY <3>1, <3>2 DEF ImageInv
    <3>9. ReadInv'
      BY <3>1, <3>2 DEF ImageInv
    <3>10. MissingMeansReplaced'
      BY <3>1, <3>2, <3>3 DEF ImageInv
    <3>11. ReplacedFileGoes'
      BY <3>1, <3>2 DEF ImageInv
    <3>12. SavedInv'
      BY <3>1, <3>2 DEF ImageInv
    <3>13. QED
      BY <3>12, <3>5, <3>6, <3>7, <3>8, <3>9, <3>10, <3>11 DEF ImageInv
  <2>3. QED
    BY <2>1, <2>2
<1>4. ASSUME NEW u \in Uploads, Delete(u) PROVE ImageInv'
  BY <1>4 DEF ImageInv, Delete
<1>5. ASSUME NEW d \in Downloads, ReadPath(d) PROVE ImageInv'
  BY <1>5 DEF ImageInv, ReadPath
<1>6. ASSUME NEW d \in Downloads, LookForFile(d) PROVE ImageInv'
  BY <1>6 DEF ImageInv, LookForFile
<1>7. ASSUME NEW d \in Downloads, OpenFile(d) PROVE ImageInv'
  BY <1>7 DEF ImageInv, OpenFile
<1>8. ASSUME NEW m \in Menus, Register(m) PROVE ImageInv'
  BY <1>8 DEF ImageInv, Register, Published
<1>9. CASE Crash
  BY <1>9 DEF ImageInv, Crash
<1>10. CASE UNCHANGED imageVars
  BY <1>10 DEF ImageInv, imageVars
<1>11. QED
  BY <1>1, <1>2, <1>3, <1>4, <1>5, <1>6, <1>7, <1>8, <1>9, <1>10 DEF ImageNext

(* The inductive invariant holds in every reachable state. *)
LEMMA ImageInvHolds == ImageSpec => []ImageInv
BY InitImageInv, StepImageInv, PTL DEF ImageSpec

(* Requests, rows and files fit together in every state. *)
THEOREM ImagesTyped == ImageSpec => []ImageTypeOK
<1>1. ImageInv => ImageTypeOK
  BY DEF ImageInv
<1>2. QED
  BY <1>1, ImageInvHolds, PTL

(* A row that names the file of an upload names one that is there, unless two *)
(* rows shared it (upload_menu_image, MenuService::registerMenu).             *)
THEOREM NamedFilesExist == ImageSpec => []PathHasFile
<1>1. ImageInv => PathHasFile
  BY DEF ImageInv, ImageTypeOK, RowInv, PathHasFile
<1>2. QED
  BY <1>1, ImageInvHolds, PTL

(* get_menu_image misses a file only for a path that was replaced, in the row *)
(* it was read from or in one that shared it, or that no upload ever wrote.   *)
THEOREM MissingWasReplaced == ImageSpec => []MissingMeansReplaced
<1>1. ImageInv => MissingMeansReplaced
  BY DEF ImageInv
<1>2. QED
  BY <1>1, ImageInvHolds, PTL

(* The upload that replaces a path it has read deletes the file, unless it is *)
(* cut short (update_menu_image).                                             *)
THEOREM ReplacedFilesGo == ImageSpec => []ReplacedFileGoes
<1>1. ImageInv => ReplacedFileGoes
  BY DEF ImageInv
<1>2. QED
  BY <1>1, ImageInvHolds, PTL
=============================================================================
