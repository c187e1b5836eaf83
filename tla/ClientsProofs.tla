--------------------------- MODULE ClientsProofs ---------------------------
(***************************************************************************)
(* What the clients of a store promise, for any rows, batch size, callers, *)
(* objects and number of calls: a path holds a whole dump, a load applies  *)
(* whole batches, no memory of a crew is lost, and keys keep their order.  *)
(***************************************************************************)
EXTENDS Clients, Integers, SequenceTheorems, FiniteSetTheorems, WellFoundedInduction, TLAPS

-----------------------------------------------------------------------------
(* Smallest members: what stands for induction in the proofs below *)

\* A nonempty set of finite sets has a minimal member.
LEMMA MinimalSet ==
  ASSUME NEW F, F # {}, \A T \in F : IsFiniteSet(T)
  PROVE  \E T \in F : \A U \in F : ~ (U \subseteq T /\ U # T)
<1>. DEFINE S == UNION F
<1>1. F \subseteq FiniteSubsetsOf(S)
  BY DEF FiniteSubsetsOf
<1>2. IsWellFoundedOn(StrictSubsetOrdering(S), FiniteSubsetsOf(S))
  BY FS_StrictSubsetOrderingWellFounded
<1>3. PICK T \in F : \A U \in F : ~ (<<U, T>> \in StrictSubsetOrdering(S))
  BY <1>1, <1>2, WFMin
<1>4. ASSUME NEW U \in F, U \subseteq T, U # T PROVE FALSE
  <2>1. <<U, T>> \in StrictSubsetOrdering(S)
    BY <1>4 DEF StrictSubsetOrdering
  <2>. HIDE DEF S
  <2>. QED  BY <1>3, <2>1
<1>. QED  BY <1>4

LEMMA Smallest ==
  ASSUME NEW M \in SUBSET Nat, M # {}
  PROVE  \E m \in M : \A k \in M : m <= k
<1>. DEFINE F == {1 .. n : n \in M}
<1>1. \A n \in M : IsFiniteSet(1 .. n)
  BY FS_Interval
<1>2. F # {} /\ \A T \in F : IsFiniteSet(T)
  BY <1>1
<1>. HIDE DEF F
<1>3. PICK T \in F : \A U \in F : ~ (U \subseteq T /\ U # T)
  BY <1>2, MinimalSet
<1>4. PICK m \in M : T = 1 .. m
  BY <1>3 DEF F
<1>5. ASSUME NEW k \in M PROVE m <= k
  <2>1. SUFFICES ASSUME k < m PROVE FALSE
    OBVIOUS
  <2>2. 1 .. k \subseteq 1 .. m /\ m \in 1 .. m /\ m \notin 1 .. k
    BY <2>1
  <2>3. 1 .. k \in F
    BY DEF F
  <2>. QED  BY <1>3, <1>4, <2>2, <2>3
<1>. QED  BY <1>5

\* The last place where something holds.
LEMMA Greatest ==
  ASSUME NEW n \in Nat, NEW M \in SUBSET (1 .. n), M # {}
  PROVE  \E m \in M : \A k \in M : k <= m
<1>. DEFINE D == {n - k : k \in M}
<1>1. D \in SUBSET Nat /\ D # {}
  <2>1. \A k \in M : k \in 1 .. n /\ n - k \in Nat
    OBVIOUS
  <2>. QED  BY <2>1
<1>. HIDE DEF D
<1>2. PICK d \in D : \A e \in D : d <= e
  BY <1>1, Smallest
<1>3. PICK m \in M : d = n - m
  BY <1>2 DEF D
<1>4. ASSUME NEW k \in M PROVE k <= m
  <2>1. n - k \in D
    BY DEF D
  <2>2. n - m <= n - k
    BY <1>2, <1>3, <2>1
  <2>. QED  BY <2>2
<1>. QED  BY <1>4

LEMMA ModType == ASSUME NEW a \in Nat, NEW b \in Nat \ {0} PROVE a % b \in 0 .. b - 1
OBVIOUS

LEMMA Euclid ==
  ASSUME NEW a \in Nat, NEW b \in Nat \ {0}, NEW q \in Nat, NEW r \in 0 .. b - 1,
         a = b * q + r
  PROVE  a % b = r
OBVIOUS

LEMMA ModStep ==
  ASSUME NEW a \in Nat, NEW b \in Nat \ {0}
  PROVE  (a + 1) % b = IF (a % b) + 1 = b THEN 0 ELSE (a % b) + 1
<1>1. a = (b * (a \div b)) + (a % b) /\ a \div b \in Nat
  OBVIOUS
<1>2. PICK q \in Nat : a = (b * q) + (a % b)
  BY <1>1
<1>3. CASE (a % b) + 1 = b
  <2>1. a + 1 = (b * (q + 1)) + 0
    BY <1>2, <1>3
  <2>. QED  BY <2>1, <1>3, Euclid
<1>4. CASE (a % b) + 1 # b
  <2>1. a + 1 = (b * q) + ((a % b) + 1)
    BY <1>2
  <2>2. (a % b) + 1 \in 0 .. b - 1
    BY <1>4, ModType
  <2>. QED  BY <2>1, <2>2, <1>4, Euclid, SMTT(60)
<1>. QED  BY <1>3, <1>4

-----------------------------------------------------------------------------
(* The files of dump_store *)

Listing == {"ns", "contains", "entries"}
Loading == {"load", "loaded", "truncated"}

\* A value with the fields of a call, and one with those of a file.
IsCall(r) ==
  r = [pc |-> r.pc, op |-> r.op, to |-> r.to, prefix |-> r.prefix, nss |-> r.nss,
       ns |-> r.ns, ks |-> r.ks, batch |-> r.batch, doubt |-> r.doubt, out |-> r.out,
       at |-> r.at, pend |-> r.pend, before |-> r.before]
IsFile(f) == f = [frames |-> f.frames, cut |-> f.cut, there |-> f.there]

\* A call that lists entries writes to the other store or to a file of its own,
\* one that loads reads a path or a stream.
PortShape ==
  /\ IsCall(port)
  /\ files = [f \in {"path", "tmp", "stream"} |-> files[f]]
  /\ \A f \in {"path", "tmp", "stream"} : IsFile(files[f])
  /\ port.pc \in {"idle"} \cup Listing \cup Loading
  /\ port.pc \in Listing => \/ port.op = "copy" /\ port.to = "dst"
                            \/ port.op = "dump" /\ port.to \in {"tmp", "stream"}
  /\ port.pc \in Loading => port.op = "load" /\ port.to \in {"path", "stream"}

\* The temporary file of a dump that is under way holds what it has emitted.
FileInv ==
  /\ PortShape
  /\ port.pc \in Listing /\ port.to = "tmp" =>
       files["tmp"] = [NewFile EXCEPT !.frames = port.out]
  /\ FileWhole

LEMMA FileInit == Init => FileInv
BY DEF Init, PortInit, FileInv, PortShape, IsCall, IsFile, NoCall, NoFile, NewFile, FileWhole,
       Listing, Loading

LEMMA Fields ==
  ASSUME NEW e, NEW a, NEW b, NEW c
  PROVE  [[frames |-> e, cut |-> a, there |-> b] EXCEPT !.there = c]
           = [frames |-> e, cut |-> a, there |-> c]
OBVIOUS

LEMMA NewIsFile == IsFile(NewFile) /\ IsFile(NoFile) /\ NewFile.frames = <<>>
<1>1. NewFile = [frames |-> <<>>, cut |-> FALSE, there |-> TRUE]
  BY Fields, Zenon DEF NewFile, NoFile
<1>. QED  BY <1>1 DEF NoFile, IsFile

LEMMA Refill ==
  ASSUME NEW f, IsFile(f), NEW x
  PROVE  [f EXCEPT !.frames = x] = [frames |-> x, cut |-> f.cut, there |-> f.there]
BY DEF IsFile

LEMMA Refilled ==
  ASSUME NEW f, IsFile(f), NEW x, NEW y
  PROVE  /\ [[f EXCEPT !.frames = x] EXCEPT !.frames = y] = [f EXCEPT !.frames = y]
         /\ IsFile([f EXCEPT !.frames = x])
         /\ f.frames = x => [f EXCEPT !.frames = x] = f
<1>1. [f EXCEPT !.frames = f.frames] = f
  BY DEF IsFile
<1>2. IsFile([f EXCEPT !.frames = x])
  BY DEF IsFile
<1>3. [[f EXCEPT !.frames = x] EXCEPT !.frames = y] = [f EXCEPT !.frames = y]
  BY <1>2, Refill
<1>. QED  BY <1>1, <1>2, <1>3

LEMMA Cut ==
  ASSUME NEW f, IsFile(f), NEW x, NEW y
  PROVE  IsFile([f EXCEPT !.frames = x, !.cut = y])
<1>1. PICK g : g = [f EXCEPT !.frames = x] /\ IsFile(g)
  BY Refilled
<1>2. IsFile([g EXCEPT !.cut = y])
  <2>1. IsFile(g)
    BY <1>1
  <2>. QED  BY ONLY <2>1 DEF IsFile
<1>3. [f EXCEPT !.frames = x, !.cut = y] = [g EXCEPT !.cut = y]
  BY <1>1
<1>. QED  BY <1>2, <1>3, Zenon

LEMMA PartialIsFile ==
  ASSUME NEW f \in {"tmp", "stream"}, PortShape, Partial(f)
  PROVE  \E g : IsFile(g) /\ files' = [files EXCEPT ![f] = g]
<1>. DEFINE all == files[f].frames \o ListOf(port.batch)
<1>1. PICK n \in 0 .. Len(all), c \in BOOLEAN :
        files' = [files EXCEPT ![f].frames = SubSeq(all, 1, n), ![f].cut = c]
  BY DEF Partial
<1>. HIDE DEF all
<1>2. PICK new : new = SubSeq(all, 1, n)
  OBVIOUS
<1>3. PICK half : half = c
  OBVIOUS
<1>4. files' = [files EXCEPT ![f].frames = new, ![f].cut = half]
  BY <1>1, <1>2, <1>3
<1>5. IsFile(files[f]) /\ files = [x \in {"path", "tmp", "stream"} |-> files[x]]
  BY DEF PortShape
<1>6. IsFile([files[f] EXCEPT !.frames = new, !.cut = half])
  BY <1>5, Cut
<1>7. files' = [files EXCEPT ![f] = [files[f] EXCEPT !.frames = new, !.cut = half]]
  <2>1. f \in DOMAIN files
    BY <1>5
  <2>. QED  BY <1>4, <2>1, Zenon
<1>. QED  BY <1>6, <1>7

LEMMA FileStep == FileInv /\ [Next]_vars => FileInv'
<1>. SUFFICES ASSUME FileInv, [Next]_vars PROVE FileInv'
  OBVIOUS
<1>. USE DEF FileInv, PortShape, IsCall, IsFile, NoFile, NewFile, FileWhole, Listing, Loading
<1>1. CASE UNCHANGED portvars
  BY <1>1 DEF portvars
<1>2. ASSUME NEW prefix, copy_store(prefix) PROVE FileInv'
  BY <1>2 DEF copy_store, Begin, NoCall
<1>3. ASSUME NEW prefix, NEW to \in {"tmp", "stream"}, dump_store(prefix, to) PROVE FileInv'
  <2>1. files' = [files EXCEPT ![to] = NewFile] /\ finished' = finished
    BY <1>3 DEF dump_store, Begin, OpenFresh
  <2>2. /\ port'.pc = "ns" /\ port'.op = "dump" /\ port'.to = to /\ port'.out = <<>>
        /\ IsCall(port')
    BY <1>3 DEF dump_store, Begin, NoCall
  <2>. HIDE DEF NewFile, IsFile, IsCall, NoFile
  <2>3. NewFile = [NewFile EXCEPT !.frames = <<>>] /\ IsFile(NewFile)
    BY Refilled, NewIsFile
  <2>4. PortShape'
    BY <2>1, <2>2, <2>3
  <2>5. files'["path"] = files["path"] /\ (to = "tmp" => files'["tmp"] = NewFile)
    BY <2>1
  <2>. QED  BY <2>1, <2>2, <2>3, <2>4, <2>5
<1>4. CASE NextNs
  BY <1>4 DEF NextNs, Step
<1>5. CASE Chunk
  BY <1>5 DEF Chunk, Step
<1>6. CASE Contains
  BY <1>6 DEF Contains, Step
<1>7. CASE Emit
  <2>. DEFINE es == ListOf(port.batch)
  <2>1. /\ port' = [port EXCEPT !.pc = "ns", !.batch = Empty, !.out = @ \o es]
        /\ finished' = finished
        /\ port.pc = "contains"
    BY <1>7 DEF Emit, Step
  <2>2. IsCall(port') /\ port'.pc = "ns" /\ port'.op = port.op /\ port'.to = port.to
        /\ port'.out = port.out \o es
    BY <2>1
  <2>3. CASE port.op = "copy"
    BY <1>7, <2>1, <2>2, <2>3 DEF Emit
  <2>4. CASE port.op # "copy"
    <3>1. files' = [files EXCEPT ![port.to].frames = @ \o es] /\ port.to \in {"tmp", "stream"}
      BY <1>7, <2>1, <2>4 DEF Emit
    <3>. HIDE DEF es, NewFile, IsFile, IsCall, NoFile
    <3>2. \A f \in {"path", "tmp", "stream"} :
            files'[f] = IF f = port.to THEN [files[f] EXCEPT !.frames = @ \o es] ELSE files[f]
      BY <3>1
    <3>3. PortShape'
      <4>1. \A f \in {"path", "tmp", "stream"} : IsFile(files'[f])
        <5>1. ASSUME NEW f \in {"path", "tmp", "stream"}, f = port.to PROVE IsFile(files'[f])
          <6>1. PICK new : new = files[f].frames \o es
            OBVIOUS
          <6>2. PICK old : old = files[f]
            OBVIOUS
          <6>3. files'[f] = [old EXCEPT !.frames = new] /\ IsFile(old)
            BY <3>2, <5>1, <6>1, <6>2
          <6>4. IsFile([old EXCEPT !.frames = new])
            BY <6>3, Refilled, Zenon
          <6>. QED  BY <6>3, <6>4
        <5>. QED  BY <3>2, <5>1
      <4>. QED  BY <2>1, <2>2, <3>1, <4>1
    <3>4. port.to = "tmp" => files'["tmp"] = [NewFile EXCEPT !.frames = port'.out]
      <4>1. ASSUME port.to = "tmp" PROVE files'["tmp"] = [NewFile EXCEPT !.frames = port'.out]
        <5>1. files["tmp"] = [NewFile EXCEPT !.frames = port.out]
          BY <2>1, <4>1
        <5>2. files'["tmp"] = [files["tmp"] EXCEPT !.frames = port.out \o es]
          BY <3>2, <4>1, <5>1, Refilled, NewIsFile, ZenonT(60)
        <5>. QED  BY <2>2, <5>1, <5>2, Refilled, NewIsFile
      <4>. QED  BY <4>1
    <3>5. FileWhole'
      BY <2>1, <3>1, <3>2
    <3>. QED  BY <2>2, <3>3, <3>4, <3>5
  <2>. QED  BY <2>3, <2>4
<1>8. CASE EndOfEntries
  BY <1>8 DEF EndOfEntries, Step
<1>9. CASE Return
  BY <1>9, ZenonT(60) DEF Return, NoCall
<1>10. CASE Raise
  <2>1. IsCall(port') /\ port'.pc = "idle" /\ finished' = finished
    BY <1>10 DEF Raise, Halt, NoCall
  <2>2. CASE UNCHANGED files
    BY <2>1, <2>2
  <2>3. CASE files' = [files EXCEPT !["tmp"] = NoFile]
    BY <2>1, <2>3
  <2>4. CASE Partial("stream")
    <3>1. PICK g : IsFile(g) /\ files' = [files EXCEPT !["stream"] = g]
      BY <2>4, PartialIsFile
    <3>. QED  BY <2>1, <3>1
  <2>. QED  BY <1>10, <2>2, <2>3, <2>4 DEF Raise
<1>11. CASE Crash
  <2>1. IsCall(port') /\ port'.pc = "idle" /\ finished' = finished
    BY <1>11 DEF Crash, Halt, NoCall
  <2>2. PICK g : IsFile(g) /\ files' = [files EXCEPT !["tmp"] = g]
    BY <1>11, PartialIsFile DEF Crash
  <2>. QED  BY <2>1, <2>2
<1>12. ASSUME NEW f \in {"path", "stream"}, load_store(f) PROVE FileInv'
  BY <1>12 DEF load_store, NoCall
<1>13. CASE LoadFrame
  BY <1>13 DEF LoadFrame, Step
<1>14. CASE LoadEnd
  BY <1>14 DEF LoadEnd, Step
<1>15. CASE LoadReturn
  BY <1>15 DEF LoadReturn, Step, NoCall
<1>. QED
  BY <1>1, <1>2, <1>3, <1>4, <1>5, <1>6, <1>7, <1>8, <1>9, <1>10, <1>11, <1>12, <1>13, <1>14,
     <1>15 DEF Next, PortNext, CrewNext, vars

\* Whatever dumps, exceptions, crashes and loads, a path holds nothing or the
\* whole of the last dump that was moved into place (dump_store: "an interrupted
\* dump never leaves a truncated file behind").
THEOREM PathHoldsAWholeDump == Spec => []FileWhole
<1>1. FileInv => FileWhole
  BY DEF FileInv
<1>. QED  BY <1>1, FileInit, FileStep, PTL DEF Spec

-----------------------------------------------------------------------------
(* The rows that a list of entries leaves behind *)

IsSeq(f) == f \in Seq({f[i] : i \in DOMAIN f})
IsFcn(f) == f = [x \in DOMAIN f |-> f[x]]

LEMMA SeqIs ==
  ASSUME NEW S, NEW f \in Seq(S)
  PROVE  IsSeq(f)
BY DEF IsSeq

LEMMA SeqHas ==
  ASSUME NEW f, IsSeq(f)
  PROVE  Len(f) \in Nat /\ DOMAIN f = 1 .. Len(f)
<1>. DEFINE S == {f[i] : i \in DOMAIN f}
<1>1. f \in Seq(S)
  BY DEF IsSeq
<1>. HIDE DEF S
<1>. QED  BY <1>1

LEMMA SeqConcat ==
  ASSUME NEW f, NEW g, IsSeq(f), IsSeq(g)
  PROVE  /\ IsSeq(f \o g)
         /\ Len(f \o g) = Len(f) + Len(g)
         /\ \A i \in 1 .. Len(f) : (f \o g)[i] = f[i]
         /\ \A i \in Len(f) + 1 .. Len(f) + Len(g) : (f \o g)[i] = g[i - Len(f)]
<1>. DEFINE S == {f[i] : i \in DOMAIN f}
            T == {g[i] : i \in DOMAIN g}
            U == S \cup T
<1>1. f \in Seq(S) /\ g \in Seq(T)
  BY DEF IsSeq
<1>2. f \in Seq(U) /\ g \in Seq(U)
  <2>. HIDE DEF S, T
  <2>. QED  BY <1>1
<1>. HIDE DEF S, T, U
<1>3. f \o g \in Seq(U)
  BY <1>2
<1>4. IsSeq(f \o g)
  BY <1>3, SeqIs
<1>. QED  BY <1>2, <1>4

LEMMA SeqPart ==
  ASSUME NEW f, IsSeq(f), NEW m \in 1 .. Len(f) + 1, NEW n \in m - 1 .. Len(f)
  PROVE  /\ IsSeq(SubSeq(f, m, n))
         /\ Len(SubSeq(f, m, n)) = n - m + 1
         /\ \A i \in 1 .. n - m + 1 : SubSeq(f, m, n)[i] = f[m + i - 1]
<1>. DEFINE S == {f[i] : i \in DOMAIN f}
<1>1. f \in Seq(S) /\ Len(f) \in Nat
  BY SeqHas DEF IsSeq
<1>. HIDE DEF S
<1>2. SubSeq(f, m, n) \in Seq(S)
  BY <1>1
<1>3. IsSeq(SubSeq(f, m, n))
  BY <1>2, SeqIs
<1>. QED  BY <1>1, <1>3

LEMMA SeqAppend ==
  ASSUME NEW f, IsSeq(f), NEW e
  PROVE  /\ IsSeq(Append(f, e))
         /\ Len(Append(f, e)) = Len(f) + 1
         /\ \A i \in 1 .. Len(f) : Append(f, e)[i] = f[i]
         /\ Append(f, e)[Len(f) + 1] = e
<1>. DEFINE S == {f[i] : i \in DOMAIN f}
            U == S \cup {e}
<1>1. f \in Seq(S)
  BY DEF IsSeq
<1>2. f \in Seq(U)
  <2>. HIDE DEF S
  <2>. QED  BY <1>1
<1>. HIDE DEF S
<1>3. e \in U
  OBVIOUS
<1>. HIDE DEF U
<1>4. Append(f, e) \in Seq(U)
  BY <1>2, <1>3
<1>5. IsSeq(Append(f, e))
  BY <1>4, SeqIs
<1>. QED  BY <1>2, <1>3, <1>5

LEMMA SameSeq ==
  ASSUME NEW f, NEW g, IsSeq(f), IsSeq(g), Len(f) = Len(g), \A i \in 1 .. Len(f) : f[i] = g[i]
  PROVE  f = g
<1>. DEFINE S == {f[i] : i \in DOMAIN f}
            T == {g[i] : i \in DOMAIN g}
<1>1. f \in Seq(S) /\ g \in Seq(T)
  BY DEF IsSeq
<1>. HIDE DEF S, T
<1>2. f \in Seq(S \cup T) /\ g \in Seq(S \cup T)
  BY <1>1
<1>. QED  BY <1>2, SeqEqual

LEMMA RowsOfFcn ==
  ASSUME NEW s
  PROVE  RowsOf(s) = [r \in DOMAIN RowsOf(s) |-> RowsOf(s)[r]]
BY DEF RowsOf

LEMMA RowsOfDomain ==
  ASSUME NEW s, IsSeq(s), NEW r
  PROVE  r \in DOMAIN RowsOf(s) <=> \E i \in 1 .. Len(s) : s[i][1] = r
BY SeqHas DEF RowsOf

\* The last entry of a row is the one that counts.
LEMMA RowsOfLast ==
  ASSUME NEW s, IsSeq(s), NEW r \in DOMAIN RowsOf(s)
  PROVE  \E i \in 1 .. Len(s) : /\ s[i][1] = r /\ \A j \in i + 1 .. Len(s) : s[j][1] # r
                                /\ RowsOf(s)[r] = s[i][2]
<1>. DEFINE M == {i \in 1 .. Len(s) : s[i][1] = r}
            Last(i) == s[i][1] = r /\ \A j \in i + 1 .. Len(s) : s[j][1] # r
<1>0. Len(s) \in Nat /\ DOMAIN s = 1 .. Len(s)
  BY SeqHas
<1>1. M \in SUBSET (1 .. Len(s)) /\ M # {}
  BY RowsOfDomain
<1>2. PICK m \in M : \A k \in M : k <= m
  BY <1>0, <1>1, Greatest
<1>3. m \in DOMAIN s /\ Last(m)
  BY <1>0, <1>2
<1>4. PICK c : c = CHOOSE i \in DOMAIN s : Last(i)
  OBVIOUS
<1>5. c \in DOMAIN s /\ Last(c)
  <2>. HIDE DEF Last
  <2>. QED  BY <1>3, <1>4
<1>6. RowsOf(s)[r] = s[c][2]
  BY <1>4 DEF RowsOf
<1>. QED  BY <1>0, <1>5, <1>6

LEMMA RowsOfConcat ==
  ASSUME NEW a, NEW b, IsSeq(a), IsSeq(b)
  PROVE  RowsOf(a \o b) = Merge(RowsOf(a), RowsOf(b))
<1>. DEFINE c == a \o b
<1>1. /\ IsSeq(c) /\ Len(c) = Len(a) + Len(b)
      /\ \A i \in 1 .. Len(a) : c[i] = a[i]
      /\ \A i \in Len(a) + 1 .. Len(a) + Len(b) : c[i] = b[i - Len(a)]
  BY SeqConcat
<1>2. Len(a) \in Nat /\ Len(b) \in Nat
  BY SeqHas
<1>. HIDE DEF c
<1>3. \A i \in 1 .. Len(b) : c[Len(a) + i] = b[i] /\ Len(a) + i \in 1 .. Len(c)
  <2>. TAKE i \in 1 .. Len(b)
  <2>1. Len(a) + i \in Len(a) + 1 .. Len(a) + Len(b) /\ (Len(a) + i) - Len(a) = i
    BY <1>2
  <2>. QED  BY <1>1, <1>2, <2>1
<1>4. DOMAIN RowsOf(c) = DOMAIN RowsOf(a) \cup DOMAIN RowsOf(b)
  <2>1. \A r \in DOMAIN RowsOf(c) : r \in DOMAIN RowsOf(a) \cup DOMAIN RowsOf(b)
    <3>. TAKE r \in DOMAIN RowsOf(c)
    <3>1. PICK i \in 1 .. Len(c) : c[i][1] = r
      BY <1>1, RowsOfDomain
    <3>2. CASE i <= Len(a)
      BY <1>1, <1>2, <3>1, <3>2, RowsOfDomain
    <3>3. CASE i > Len(a)
      <4>1. i - Len(a) \in 1 .. Len(b) /\ c[i] = b[i - Len(a)]
        BY <1>1, <1>2, <3>3
      <4>. QED  BY <3>1, <4>1, RowsOfDomain
    <3>. QED  BY <1>1, <1>2, <3>2, <3>3
  <2>2. \A r \in DOMAIN RowsOf(a) : r \in DOMAIN RowsOf(c)
    <3>. TAKE r \in DOMAIN RowsOf(a)
    <3>1. PICK i \in 1 .. Len(a) : a[i][1] = r
      BY RowsOfDomain
    <3>2. i \in 1 .. Len(c) /\ c[i][1] = r
      BY <1>1, <1>2, <3>1
    <3>. QED  BY <1>1, <3>2, RowsOfDomain
  <2>3. \A r \in DOMAIN RowsOf(b) : r \in DOMAIN RowsOf(c)
    <3>. TAKE r \in DOMAIN RowsOf(b)
    <3>1. PICK i \in 1 .. Len(b) : b[i][1] = r
      BY RowsOfDomain
    <3>2. Len(a) + i \in 1 .. Len(c) /\ c[Len(a) + i][1] = r
      BY <1>3, <3>1
    <3>. QED  BY <1>1, <3>2, RowsOfDomain
  <2>. QED  BY <2>1, <2>2, <2>3
<1>5. ASSUME NEW r \in DOMAIN RowsOf(c)
      PROVE  RowsOf(c)[r] = IF r \in DOMAIN RowsOf(b) THEN RowsOf(b)[r] ELSE RowsOf(a)[r]
  <2>1. PICK i \in 1 .. Len(c) : /\ c[i][1] = r /\ \A j \in i + 1 .. Len(c) : c[j][1] # r
                                 /\ RowsOf(c)[r] = c[i][2]
    BY <1>1, RowsOfLast
  <2>2. CASE r \in DOMAIN RowsOf(b)
    <3>1. PICK k \in 1 .. Len(b) : /\ b[k][1] = r /\ \A j \in k + 1 .. Len(b) : b[j][1] # r
                                   /\ RowsOf(b)[r] = b[k][2]
      BY <2>2, RowsOfLast
    <3>2. ~ (i < Len(a) + k)
      <4>1. i < Len(a) + k => Len(a) + k \in i + 1 .. Len(c)
        BY <1>1, <1>2
      <4>. QED  BY <1>3, <2>1, <3>1, <4>1
    <3>3. ~ (Len(a) + k < i)
      <4>1. SUFFICES ASSUME Len(a) + k < i PROVE FALSE
        OBVIOUS
      <4>2. i - Len(a) \in k + 1 .. Len(b) /\ c[i] = b[i - Len(a)]
        BY <1>1, <1>2, <4>1
      <4>. QED  BY <2>1, <3>1, <4>2
    <3>4. i = Len(a) + k
      <4>1. i \in Nat /\ Len(a) + k \in Nat
        BY <1>1, <1>2
      <4>. QED  BY <3>2, <3>3, <4>1
    <3>. QED  BY <1>3, <2>1, <2>2, <3>1, <3>4
  <2>3. CASE r \notin DOMAIN RowsOf(b)
    <3>1. PICK k \in 1 .. Len(a) : /\ a[k][1] = r /\ \A j \in k + 1 .. Len(a) : a[j][1] # r
                                   /\ RowsOf(a)[r] = a[k][2]
      BY <1>4, <2>3, RowsOfLast
    <3>2. i \in 1 .. Len(a)
      <4>1. SUFFICES ASSUME i > Len(a) PROVE FALSE
        BY <1>1, <1>2
      <4>2. i - Len(a) \in 1 .. Len(b) /\ c[i] = b[i - Len(a)]
        BY <1>1, <1>2, <4>1
      <4>. QED  BY <2>1, <2>3, <4>2, RowsOfDomain
    <3>3. ~ (k < i)
      <4>1. k < i => i \in k + 1 .. Len(a)
        BY <1>2, <3>2
      <4>. QED  BY <1>1, <2>1, <3>1, <3>2, <4>1
    <3>4. ~ (i < k)
      <4>1. i < k => k \in i + 1 .. Len(c)
        BY <1>1, <1>2, <3>2
      <4>. QED  BY <1>1, <2>1, <3>1, <4>1
    <3>5. i = k
      BY <1>2, <3>2, <3>3, <3>4
    <3>. QED  BY <1>1, <2>1, <2>3, <3>1, <3>5
  <2>. QED  BY <2>2, <2>3
<1>6. RowsOf(c) = [r \in DOMAIN RowsOf(c) |-> RowsOf(c)[r]]
  BY RowsOfFcn
<1>7. RowsOf(c) = Merge(RowsOf(a), RowsOf(b))
  BY <1>4, <1>5, <1>6 DEF Merge
<1>. QED  BY <1>7 DEF c

LEMMA MergeTwice ==
  ASSUME NEW f, NEW g, NEW h
  PROVE  Merge(Merge(f, g), h) = Merge(f, Merge(g, h))
BY DEF Merge

LEMMA MergeNothing ==
  ASSUME NEW f, IsFcn(f), NEW s, IsSeq(s), Len(s) = 0
  PROVE  Merge(f, RowsOf(s)) = f
<1>1. DOMAIN RowsOf(s) = {}
  BY RowsOfDomain
<1>. QED  BY <1>1 DEF Merge, IsFcn

\* A part of a list applied to the rows that the part before it left.
LEMMA ApplyPart ==
  ASSUME NEW f, IsSeq(f), NEW n \in 0 .. Len(f), NEW m \in 0 .. n, NEW before
  PROVE  Merge(Merge(before, RowsOf(SubSeq(f, 1, m))), RowsOf(SubSeq(f, m + 1, n)))
           = Merge(before, RowsOf(SubSeq(f, 1, n)))
<1>. DEFINE a == SubSeq(f, 1, m)
            b == SubSeq(f, m + 1, n)
            c == SubSeq(f, 1, n)
<1>0. Len(f) \in Nat
  BY SeqHas
<1>1. IsSeq(a) /\ Len(a) = m /\ \A i \in 1 .. m : a[i] = f[i]
  <2>1. 1 \in 1 .. Len(f) + 1 /\ m \in 1 - 1 .. Len(f)
    BY <1>0
  <2>2. IsSeq(a) /\ Len(a) = m - 1 + 1 /\ \A i \in 1 .. m - 1 + 1 : a[i] = f[1 + i - 1]
    BY <2>1, SeqPart
  <2>. HIDE DEF a
  <2>. QED  BY <2>2
<1>2. IsSeq(b) /\ Len(b) = n - m /\ \A i \in 1 .. n - m : b[i] = f[m + i]
  <2>1. m + 1 \in 1 .. Len(f) + 1 /\ n \in (m + 1) - 1 .. Len(f)
    BY <1>0
  <2>2. /\ IsSeq(b) /\ Len(b) = n - (m + 1) + 1
        /\ \A i \in 1 .. n - (m + 1) + 1 : b[i] = f[(m + 1) + i - 1]
    BY <2>1, SeqPart
  <2>. HIDE DEF b
  <2>. QED  BY <2>2
<1>3. IsSeq(c) /\ Len(c) = n /\ \A i \in 1 .. n : c[i] = f[i]
  <2>1. 1 \in 1 .. Len(f) + 1 /\ n \in 1 - 1 .. Len(f)
    BY <1>0
  <2>2. IsSeq(c) /\ Len(c) = n - 1 + 1 /\ \A i \in 1 .. n - 1 + 1 : c[i] = f[1 + i - 1]
    BY <2>1, SeqPart
  <2>. HIDE DEF c
  <2>. QED  BY <2>2
<1>. HIDE DEF a, b, c
<1>4. a \o b = c
  <2>1. /\ IsSeq(a \o b) /\ Len(a \o b) = n
        /\ \A i \in 1 .. m : (a \o b)[i] = a[i]
        /\ \A i \in m + 1 .. n : (a \o b)[i] = b[i - m]
    BY <1>1, <1>2, SeqConcat
  <2>2. \A i \in 1 .. n : (a \o b)[i] = c[i]
    <3>. TAKE i \in 1 .. n
    <3>1. CASE i <= m
      BY <1>1, <1>3, <2>1, <3>1
    <3>2. CASE i > m
      <4>1. i - m \in 1 .. n - m /\ m + (i - m) = i /\ i \in m + 1 .. n
        BY <1>0, <3>2
      <4>. QED  BY <1>2, <1>3, <2>1, <4>1
    <3>3. i <= m \/ i > m
      BY <1>0
    <3>. QED  BY <3>1, <3>2, <3>3
  <2>. QED  BY <1>3, <2>1, <2>2, SameSeq
<1>5. Merge(RowsOf(a), RowsOf(b)) = RowsOf(c)
  BY <1>1, <1>2, <1>4, RowsOfConcat
<1>6. Merge(Merge(before, RowsOf(a)), RowsOf(b)) = Merge(before, RowsOf(c))
  BY <1>5, MergeTwice
<1>. QED  BY <1>6 DEF a, b, c

-----------------------------------------------------------------------------
(* load_store *)

LEMMA PortKeepsSource == PortNext => UNCHANGED src
BY DEF PortNext, copy_store, dump_store, Begin, NextNs, Chunk, Contains, Emit, EndOfEntries,
       Return, Raise, Crash, Halt, load_store, LoadFrame, LoadEnd, LoadReturn, Step, store

\* The steps that change the rows of the store.
LEMMA SourceSteps ==
  ASSUME [Next]_vars
  PROVE  \/ UNCHANGED src
         \/ \E c \in Caller : SaveSet(c) \/ ResetDelete(c)
         \/ \E r \in {q \in DOMAIN Rows : q[1] # CrewNs} :
              (\E v \in Values : Write(r, v)) \/ Delete(r)
<1>1. PortNext => UNCHANGED src
  BY PortKeepsSource
<1>2. CrewNext => UNCHANGED src \/ \E c \in Caller : SaveSet(c) \/ ResetDelete(c)
  BY DEF CrewNext, SaveKey, search, reset, List, SearchGet, SearchRank, Done, Restart, store
<1>. QED  BY <1>1, <1>2 DEF Next, vars, store

\* What is listed of the store is finite.
FiniteInv ==
  /\ IsFiniteSet(DOMAIN src)
  /\ IsFiniteSet(port.ks)
  /\ IsFiniteSet(DOMAIN port.batch)

LEMMA FiniteKeys ==
  ASSUME IsFiniteSet(DOMAIN src), NEW n
  PROVE  IsFiniteSet(keys(n))
<1>. DEFINE S == {q \in DOMAIN src : q[1] = n}
            f == [r \in S |-> r[2]]
<1>1. IsFiniteSet(S)
  BY FS_Subset
<1>2. f \in Surjection(S, keys(n))
  BY DEF Surjection, keys
<1>. QED  BY <1>1, <1>2, FS_Surjection

LEMMA FiniteSource ==
  ASSUME IsFiniteSet(DOMAIN src), [Next]_vars
  PROVE  IsFiniteSet(DOMAIN src')
<1>1. ASSUME NEW r, NEW v, src' = Merge(src, [x \in {r} |-> v]) PROVE IsFiniteSet(DOMAIN src')
  <2>1. DOMAIN src' = DOMAIN src \cup {r}
    BY <1>1 DEF Merge
  <2>. QED  BY <2>1, FS_AddElement
<1>2. ASSUME NEW S, src' = Without(src, S) PROVE IsFiniteSet(DOMAIN src')
  <2>1. DOMAIN src' \in SUBSET DOMAIN src
    BY <1>2 DEF Without
  <2>. QED  BY <2>1, FS_Subset
<1>3. ASSUME NEW c \in Caller, SaveSet(c) PROVE IsFiniteSet(DOMAIN src')
  BY <1>1, <1>3 DEF SaveSet, Becomes
<1>4. ASSUME NEW c \in Caller, ResetDelete(c) PROVE IsFiniteSet(DOMAIN src')
  BY <1>2, <1>4 DEF ResetDelete, Becomes
<1>5. ASSUME NEW r, NEW v, Write(r, v) PROVE IsFiniteSet(DOMAIN src')
  BY <1>1, <1>5 DEF Write, Becomes
<1>6. ASSUME NEW r, Delete(r) PROVE IsFiniteSet(DOMAIN src')
  BY <1>2, <1>6 DEF Delete, Becomes
<1>. QED  BY <1>3, <1>4, <1>5, <1>6, SourceSteps

LEMMA FiniteInit == Init => FiniteInv
BY RowsAssumption, FS_EmptySet DEF Init, PortInit, NoCall, Empty, FiniteInv

LEMMA FiniteStep == PortShape /\ FiniteInv /\ [Next]_vars => FiniteInv'
<1>. SUFFICES ASSUME PortShape, FiniteInv, [Next]_vars PROVE FiniteInv'
  OBVIOUS
<1>0. IsFiniteSet(DOMAIN src')
  BY FiniteSource DEF FiniteInv
<1>. USE DEF FiniteInv, PortShape, IsCall
<1>1. ASSUME port'.ks = {} \/ port'.ks = port.ks, port'.batch = Empty \/ port'.batch = port.batch
      PROVE  FiniteInv'
  BY <1>0, <1>1, FS_EmptySet DEF Empty
<1>2. CASE NextNs
  <2>1. PICK n : port' = [port EXCEPT !.nss = @ \ {n}, !.ns = n, !.ks = keys(n)]
    BY <1>2 DEF NextNs, Step
  <2>. QED  BY <1>0, <2>1, FiniteKeys
<1>3. CASE Chunk
  <2>. DEFINE rs   == {port.ns} \X NextKeys
              vals == [r \in rs |-> IF r \in DOMAIN src THEN src[r] ELSE Null]
  <2>1. /\ port'.ks = port.ks \ NextKeys
        /\ port'.batch = vals
    BY <1>3 DEF Chunk, Step
  <2>2. IsFiniteSet(NextKeys) /\ IsFiniteSet(port.ks \ NextKeys)
    BY FS_Subset, FS_Difference DEF NextKeys
  <2>3. IsFiniteSet(rs)
    BY <2>2, FS_Singleton, FS_Product
  <2>4. DOMAIN vals = rs
    OBVIOUS
  <2>. HIDE DEF rs, vals
  <2>. QED  BY <1>0, <2>1, <2>2, <2>3, <2>4
<1>4. CASE Contains
  <2>1. PICK r : port' = [port EXCEPT !.doubt = @ \ {r},
                            !.batch = IF r \in DOMAIN src THEN @ ELSE Without(@, {r})]
    BY <1>4 DEF Contains, Step
  <2>2. port'.ks = port.ks /\ DOMAIN port'.batch \in SUBSET DOMAIN port.batch
    BY <2>1 DEF Without
  <2>. QED  BY <1>0, <2>2, FS_Subset
<1>5. ASSUME NEW prefix, copy_store(prefix) \/ \E to : dump_store(prefix, to) PROVE FiniteInv'
  BY <1>1, <1>5, ZenonT(60) DEF copy_store, dump_store, Begin, NoCall
<1>6. CASE Emit
  BY <1>1, <1>6 DEF Emit, Step
<1>7. CASE EndOfEntries \/ Return \/ Raise \/ Crash
  BY <1>1, <1>7 DEF EndOfEntries, Return, Raise, Crash, Halt, Step, NoCall
<1>8. CASE \E f : load_store(f)
  BY <1>1, <1>8 DEF load_store, NoCall
<1>9. CASE LoadFrame \/ LoadEnd \/ LoadReturn
  <2>1. LoadFrame => port'.ks = port.ks /\ port'.batch = port.batch
    BY DEF LoadFrame, Step
  <2>2. LoadEnd => port'.ks = port.ks /\ port'.batch = port.batch
    BY DEF LoadEnd, Step
  <2>3. LoadReturn => port'.ks = {} /\ port'.batch = Empty
    BY DEF LoadReturn, Step, NoCall
  <2>. QED  BY <1>1, <1>9, <2>1, <2>2, <2>3
<1>10. CASE UNCHANGED portvars
  BY <1>1, <1>10 DEF portvars
<1>. QED
  BY <1>2, <1>3, <1>4, <1>5, <1>6, <1>7, <1>8, <1>9, <1>10 DEF Next, PortNext, vars

LEMMA ListOfSeq ==
  ASSUME NEW b, IsFiniteSet(DOMAIN b)
  PROVE  IsSeq(ListOf(b))
<1>. DEFINE n      == Cardinality(DOMAIN b)
            nth(i) == CHOOSE r \in DOMAIN b :
                        Cardinality({q \in DOMAIN b : Below(q[2], r[2])}) = i - 1
            e(i)   == <<nth(i), b[nth(i)]>>
            S      == {e(i) : i \in 1 .. n}
<1>1. n \in Nat
  BY FS_CardinalityType
<1>2. ListOf(b) = [i \in 1 .. n |-> e(i)]
  BY DEF ListOf
<1>. HIDE DEF n, e
<1>3. [i \in 1 .. n |-> e(i)] \in Seq(S)
  BY <1>1
<1>. QED  BY <1>2, <1>3, SeqIs

\* Files hold sequences of frames.
FramesInv == \A f \in {"path", "tmp", "stream"} : IsSeq(files[f].frames)

LEMMA NoFrames == IsSeq(<<>>) /\ Len(<<>>) = 0
<1>1. PICK S : S = {}
  OBVIOUS
<1>2. <<>> \in Seq(S)
  OBVIOUS
<1>3. IsSeq(<<>>)
  BY <1>2, SeqIs
<1>. QED  BY <1>3

LEMMA FramesInit == Init => FramesInv
BY NoFrames DEF Init, PortInit, NoFile, FramesInv

LEMMA FramesStep == PortShape /\ FiniteInv /\ FramesInv /\ [Next]_vars => FramesInv'
<1>. SUFFICES ASSUME PortShape, FiniteInv, FramesInv, [Next]_vars PROVE FramesInv'
  OBVIOUS
<1>0. IsSeq(NewFile.frames) /\ IsSeq(NoFile.frames)
  BY NewIsFile, NoFrames DEF NoFile
<1>1. CASE UNCHANGED files
  BY <1>1 DEF FramesInv
<1>2. ASSUME NEW f \in {"path", "tmp", "stream"}, NEW g, files' = [files EXCEPT ![f] = g],
             IsSeq(g.frames)
      PROVE  FramesInv'
  BY <1>2 DEF FramesInv, PortShape
<1>3. ASSUME NEW prefix, NEW to \in {"tmp", "stream"}, dump_store(prefix, to) PROVE FramesInv'
  BY <1>0, <1>2, <1>3 DEF dump_store, OpenFresh
<1>4. IsSeq(ListOf(port.batch))
  BY ListOfSeq DEF FiniteInv
<1>5. CASE Emit
  <2>1. CASE port.op = "copy"
    BY <1>1, <1>5, <2>1 DEF Emit
  <2>2. CASE port.op # "copy"
    <3>1. PICK es : es = ListOf(port.batch) /\ IsSeq(es)
      BY <1>4
    <3>2. files' = [files EXCEPT ![port.to].frames = @ \o es] /\ port.to \in {"tmp", "stream"}
      BY <1>5, <2>2, <3>1 DEF Emit, PortShape, Listing
    <3>3. \A f \in {"path", "tmp", "stream"} :
            files'[f].frames = IF f = port.to THEN files[f].frames \o es ELSE files[f].frames
      BY <3>2 DEF PortShape, IsFile
    <3>. QED  BY <3>1, <3>3, SeqConcat DEF FramesInv
  <2>. QED  BY <2>1, <2>2
<1>6. CASE Return
  <2>1. CASE UNCHANGED files
    BY <1>1, <2>1
  <2>2. CASE files' = [files EXCEPT !["path"] = files["tmp"], !["tmp"] = NoFile]
    BY <1>0, <2>2 DEF FramesInv, PortShape
  <2>. QED  BY <1>6, <2>1, <2>2 DEF Return
<1>7. ASSUME NEW f \in {"tmp", "stream"}, Partial(f) PROVE FramesInv'
  <2>1. PICK all : all = files[f].frames \o ListOf(port.batch)
    OBVIOUS
  <2>2. IsSeq(all) /\ Len(all) \in Nat
    BY <1>4, <2>1, SeqConcat, SeqHas DEF FramesInv
  <2>3. PICK n \in 0 .. Len(all), half \in BOOLEAN :
          files' = [files EXCEPT ![f].frames = SubSeq(all, 1, n), ![f].cut = half]
    BY <1>7, <2>1 DEF Partial
  <2>4. PICK new : new = SubSeq(all, 1, n) /\ IsSeq(new)
    <3>1. 1 \in 1 .. Len(all) + 1 /\ n \in 1 - 1 .. Len(all)
      BY <2>2
    <3>. QED  BY <2>2, <3>1, SeqPart
  <2>5. \A g \in {"path", "tmp", "stream"} :
          files'[g].frames = IF g = f THEN new ELSE files[g].frames
    BY <2>3, <2>4 DEF PortShape, IsFile
  <2>. QED  BY <2>4, <2>5 DEF FramesInv
<1>8. CASE Raise
  <2>1. CASE files' = [files EXCEPT !["tmp"] = NoFile]
    BY <1>0, <1>2, <2>1
  <2>. QED  BY <1>1, <1>7, <1>8, <2>1 DEF Raise
<1>9. CASE Crash
  BY <1>7, <1>9 DEF Crash
<1>. QED
  BY <1>1, <1>3, <1>5, <1>6, <1>8, <1>9 DEF Next, PortNext, vars, portvars, copy_store, NextNs,
     Chunk, Contains, EndOfEntries, load_store, LoadFrame, LoadEnd, LoadReturn

\* p frames of f, up to the a-th.
LEMMA Frames ==
  ASSUME NEW f, IsSeq(f), NEW a \in Nat, a <= Len(f), NEW p \in Nat, p <= a
  PROVE  /\ IsSeq(SubSeq(f, a - p + 1, a))
         /\ Len(SubSeq(f, a - p + 1, a)) = p
         /\ \A i \in 1 .. p : SubSeq(f, a - p + 1, a)[i] = f[(a - p) + i]
<1>0. Len(f) \in Nat
  BY SeqHas
<1>1. PICK m : m = a - p + 1 /\ m \in 1 .. Len(f) + 1 /\ a \in m - 1 .. Len(f) /\ m \in Nat
  BY <1>0
<1>2. PICK t : t = SubSeq(f, m, a)
  OBVIOUS
<1>3. IsSeq(t) /\ Len(t) = a - m + 1 /\ \A i \in 1 .. a - m + 1 : t[i] = f[m + i - 1]
  BY <1>1, <1>2, SeqPart
<1>4. a - m + 1 = p /\ \A i \in 1 .. p : m + i - 1 = (a - p) + i
  BY <1>1
<1>5. IsSeq(t) /\ Len(t) = p /\ \A i \in 1 .. p : t[i] = f[(a - p) + i]
  BY <1>3, <1>4
<1>. QED  BY <1>1, <1>2, <1>5

LEMMA NextFrame ==
  ASSUME NEW f, IsSeq(f), NEW a \in Nat, a < Len(f), NEW p \in Nat, p <= a
  PROVE  /\ Append(SubSeq(f, a - p + 1, a), f[a + 1]) = SubSeq(f, a - p + 1, a + 1)
         /\ Len(SubSeq(f, a - p + 1, a + 1)) = p + 1
<1>0. Len(f) \in Nat
  BY SeqHas
<1>1. PICK s : /\ s = SubSeq(f, a - p + 1, a) /\ IsSeq(s) /\ Len(s) = p
               /\ \A i \in 1 .. p : s[i] = f[(a - p) + i]
  <2>1. a <= Len(f)
    BY <1>0
  <2>2. IsSeq(SubSeq(f, a - p + 1, a)) /\ Len(SubSeq(f, a - p + 1, a)) = p
    BY <2>1, Frames
  <2>3. \A i \in 1 .. p : SubSeq(f, a - p + 1, a)[i] = f[(a - p) + i]
    BY <2>1, Frames
  <2>. QED  BY <2>2, <2>3, Zenon
<1>2. PICK t : /\ t = SubSeq(f, a - p + 1, a + 1) /\ IsSeq(t) /\ Len(t) = p + 1
               /\ \A i \in 1 .. p + 1 : t[i] = f[(a - p) + i]
  <2>1. PICK b, q : b = a + 1 /\ q = p + 1 /\ b \in Nat /\ b <= Len(f) /\ q \in Nat /\ q <= b
    BY <1>0
  <2>2. IsSeq(SubSeq(f, b - q + 1, b)) /\ Len(SubSeq(f, b - q + 1, b)) = q
    BY <2>1, Frames
  <2>3. \A i \in 1 .. q : SubSeq(f, b - q + 1, b)[i] = f[(b - q) + i]
    BY <2>1, Frames
  <2>4. b - q = a - p
    BY <2>1
  <2>. QED  BY <2>1, <2>2, <2>3, <2>4, ZenonT(60)
<1>3. PICK new : new = Append(s, f[a + 1])
  OBVIOUS
<1>4. IsSeq(new) /\ Len(new) = p + 1 /\ new[p + 1] = f[a + 1] /\ \A i \in 1 .. p : new[i] = s[i]
  BY <1>1, <1>3, SeqAppend
<1>5. \A i \in 1 .. p + 1 : new[i] = t[i]
  <2>1. (a - p) + (p + 1) = a + 1 /\ p + 1 \in 1 .. p + 1
    OBVIOUS
  <2>2. t[p + 1] = f[a + 1]
    BY <1>2, <2>1
  <2>3. \A i \in 1 .. p + 1 : i \in 1 .. p \/ i = p + 1
    OBVIOUS
  <2>. QED  BY <1>1, <1>2, <1>4, <2>2, <2>3
<1>6. new = t
  BY <1>2, <1>4, <1>5, SameSeq
<1>. QED  BY <1>1, <1>2, <1>3, <1>6

LEMMA NoFrame ==
  ASSUME NEW f, IsSeq(f), NEW a \in Nat, a <= Len(f)
  PROVE  SubSeq(f, a + 1, a) = <<>>
<1>1. PICK p : p = 0 /\ p \in Nat /\ p <= a /\ a - p + 1 = a + 1
  OBVIOUS
<1>2. IsSeq(SubSeq(f, a - p + 1, a)) /\ Len(SubSeq(f, a - p + 1, a)) = p
  BY <1>1, Frames
<1>3. PICK t : t = SubSeq(f, a + 1, a) /\ IsSeq(t) /\ Len(t) = 0
  BY <1>1, <1>2
<1>. QED  BY <1>3, NoFrames, SameSeq

\* The frames of a file that a load has taken but not yet applied.
LoadInv ==
  LET f == files[port.to].frames IN
  /\ IsFcn(dst)
  /\ port.pc = "load" =>
       /\ port.at \in 0 .. Len(f)
       /\ Len(port.pend) \in 0 .. port.at
       /\ Len(port.pend) = port.at % BatchSize
       /\ port.pend = SubSeq(f, port.at - Len(port.pend) + 1, port.at)
       /\ dst = Merge(port.before, RowsOf(SubSeq(f, 1, port.at - Len(port.pend))))
  /\ LoadFaithful

LEMMA MergeIsFcn == ASSUME NEW f, NEW g PROVE IsFcn(Merge(f, g))
BY DEF IsFcn, Merge

LEMMA LoadInit == Init => LoadInv
BY DEF Init, PortInit, NoCall, Empty, IsFcn, LoadInv, LoadFaithful

LEMMA LoadStep == PortShape /\ FramesInv /\ LoadInv /\ [Next]_vars => LoadInv'
<1>. SUFFICES ASSUME PortShape, FramesInv, LoadInv, [Next]_vars PROVE LoadInv'
  OBVIOUS
<1>1. ASSUME UNCHANGED dst \/ IsFcn(dst'), port'.pc \notin Loading PROVE LoadInv'
  BY <1>1 DEF LoadInv, LoadFaithful, Loading
<1>2. CASE UNCHANGED portvars
  BY <1>2 DEF portvars, LoadInv, LoadFaithful
<1>3. ASSUME NEW prefix, copy_store(prefix) \/ \E to : dump_store(prefix, to) PROVE LoadInv'
  BY <1>1, <1>3 DEF copy_store, dump_store, Begin, NoCall, Loading
<1>4. CASE NextNs \/ Chunk \/ Contains
  <2>1. UNCHANGED dst
    BY <1>4 DEF NextNs, Chunk, Contains
  <2>2. port'.pc \in {"ns", "contains"}
    BY <1>4 DEF NextNs, Chunk, Contains, Step, PortShape, IsCall
  <2>. QED  BY <1>1, <2>1, <2>2 DEF Loading
<1>5. CASE Emit
  <2>1. port'.pc = "ns"
    BY <1>5 DEF Emit, Step, PortShape, IsCall
  <2>2. UNCHANGED dst \/ IsFcn(dst')
    BY <1>5, MergeIsFcn DEF Emit
  <2>. QED  BY <1>1, <2>1, <2>2 DEF Loading
<1>6. CASE EndOfEntries
  <2>1. port'.pc = "entries" /\ UNCHANGED dst
    BY <1>6 DEF EndOfEntries, Step, PortShape, IsCall
  <2>. QED  BY <1>1, <2>1 DEF Loading
<1>7. CASE Return \/ Raise \/ Crash \/ LoadReturn
  <2>1. port'.pc = "idle" /\ UNCHANGED dst
    BY <1>7 DEF Return, Raise, Crash, LoadReturn, Halt, Step, NoCall
  <2>. QED  BY <1>1, <2>1 DEF Loading
<1>8. ASSUME NEW p \in {"path", "stream"}, load_store(p) PROVE LoadInv'
  <2>1. /\ port'.pc = "load" /\ port'.at = 0 /\ port'.pend = <<>> /\ port'.to = p
        /\ port'.before = dst /\ UNCHANGED <<dst, files>>
    BY <1>8 DEF load_store, NoCall
  <2>2. PICK f : f = files[p].frames /\ IsSeq(f) /\ Len(f) \in Nat
    BY SeqHas DEF FramesInv
  <2>3. PICK n : n = 0 /\ n \in Nat /\ n <= Len(f) /\ n + 1 = 1
    BY <2>2
  <2>4. SubSeq(f, 1, 0) = <<>>
    BY <2>2, <2>3, NoFrame
  <2>5. dst = Merge(dst, RowsOf(SubSeq(f, 1, 0))) /\ IsFcn(dst)
    BY <2>4, NoFrames, MergeNothing DEF LoadInv
  <2>6. 0 % BatchSize = 0 /\ 0 \in 0 .. Len(f) /\ 0 \in 0 .. 0 /\ 0 - 0 + 1 = 1 /\ 0 - 0 = 0
    BY <2>2, PortAssumption
  <2>. QED  BY <2>1, <2>2, <2>4, <2>5, <2>6, NoFrames DEF LoadInv, LoadFaithful
<1>9. CASE LoadFrame
  <2>0. port.pc = "load"
    BY <1>9 DEF LoadFrame
  <2>1. PICK f : f = files[port.to].frames /\ IsSeq(f) /\ Len(f) \in Nat
    BY <2>0, SeqHas DEF PortShape, FramesInv, Loading
  <2>2. PICK a, p : /\ a = port.at /\ a \in 0 .. Len(f)
                    /\ p = Len(port.pend) /\ p \in 0 .. a /\ p = a % BatchSize
                    /\ port.pend = SubSeq(f, a - p + 1, a)
                    /\ dst = Merge(port.before, RowsOf(SubSeq(f, 1, a - p)))
    BY <2>0, <2>1 DEF LoadInv
  <2>3. a < Len(f)
    BY <1>9, <2>1, <2>2 DEF LoadFrame
  <2>4. a \in Nat /\ p \in Nat /\ p <= a
    <3>1. a \in 0 .. Len(f) /\ p \in 0 .. a /\ Len(f) \in Nat
      BY <2>1, <2>2
    <3>. QED  BY ONLY <3>1
  <2>5. PICK new : new = Append(port.pend, f[a + 1])
    OBVIOUS
  <2>6. Len(new) = p + 1 /\ new = SubSeq(f, a - p + 1, a + 1)
    <3>1. /\ Append(SubSeq(f, a - p + 1, a), f[a + 1]) = SubSeq(f, a - p + 1, a + 1)
          /\ Len(SubSeq(f, a - p + 1, a + 1)) = p + 1
      BY <2>1, <2>3, <2>4, NextFrame, Zenon
    <3>. QED  BY <2>2, <2>5, <3>1, Zenon
  <2>7. /\ p + 1 >= BatchSize <=> p + 1 = BatchSize
        /\ (a + 1) % BatchSize = IF p + 1 = BatchSize THEN 0 ELSE p + 1
    <3>1. p = a % BatchSize
      BY <2>2
    <3>2. p \in 0 .. BatchSize - 1
      BY <2>4, <3>1, PortAssumption, ModType
    <3>3. (a + 1) % BatchSize = IF p + 1 = BatchSize THEN 0 ELSE p + 1
      BY <2>4, <3>1, PortAssumption, ModStep
    <3>. QED  BY <3>2, <3>3, PortAssumption
  <2>8. /\ a + 1 \in Nat /\ a + 1 <= Len(f) /\ a + 1 \in 0 .. Len(f)
        /\ a - p \in 0 .. a + 1 /\ p + 1 \in 0 .. a + 1
        /\ (a + 1) - (p + 1) = a - p
    BY <2>1, <2>3, <2>4
  <2>9. CASE p + 1 = BatchSize
    <3>1. /\ port'.pc = "load" /\ port'.at = a + 1 /\ port'.pend = <<>> /\ port'.to = port.to
          /\ port'.before = port.before /\ dst' = Merge(dst, RowsOf(new)) /\ UNCHANGED files
      BY <1>9, <2>1, <2>2, <2>5, <2>6, <2>7, <2>9 DEF LoadFrame, Step, PortShape, IsCall
    <3>2. SubSeq(f, (a + 1) + 1, a + 1) = <<>>
      BY <2>1, <2>8, NoFrame
    <3>3. (a + 1) - 0 = a + 1 /\ 0 \in 0 .. a + 1
      BY <2>8
    <3>4. /\ dst' = Merge(port.before, RowsOf(SubSeq(f, 1, a + 1)))
          /\ IsFcn(dst')
      BY <2>1, <2>2, <2>6, <2>8, <3>1, ApplyPart, MergeIsFcn, ZenonT(60)
    <3>. QED
      BY <2>1, <2>7, <2>8, <2>9, <3>1, <3>2, <3>3, <3>4, NoFrames DEF LoadInv, LoadFaithful
  <2>10. CASE p + 1 # BatchSize
    <3>1. /\ port'.pc = "load" /\ port'.at = a + 1 /\ port'.pend = new /\ port'.to = port.to
          /\ port'.before = port.before /\ dst' = dst /\ UNCHANGED files
      BY <1>9, <2>1, <2>2, <2>5, <2>6, <2>7, <2>10 DEF LoadFrame, Step, PortShape, IsCall
    <3>2. IsFcn(dst)
      BY DEF LoadInv
    <3>. QED
      BY <2>1, <2>2, <2>6, <2>7, <2>8, <2>10, <3>1, <3>2 DEF LoadInv, LoadFaithful
  <2>. QED  BY <2>9, <2>10
<1>10. CASE LoadEnd
  <2>0. port.pc = "load"
    BY <1>10 DEF LoadEnd
  <2>1. PICK f : f = files[port.to].frames /\ IsSeq(f) /\ Len(f) \in Nat
    BY <2>0, SeqHas DEF PortShape, FramesInv, Loading
  <2>2. PICK a, p : /\ a = port.at /\ a \in 0 .. Len(f)
                    /\ p = Len(port.pend) /\ p \in 0 .. a /\ p = a % BatchSize
                    /\ port.pend = SubSeq(f, a - p + 1, a)
                    /\ dst = Merge(port.before, RowsOf(SubSeq(f, 1, a - p)))
    BY <2>0, <2>1 DEF LoadInv
  <2>3. IsFcn(dst)
    BY DEF LoadInv
  <2>4. CASE files[port.to].cut
    <3>1. /\ port'.pc = "truncated" /\ port'.at = a /\ port'.to = port.to
          /\ port'.before = port.before /\ UNCHANGED <<dst, files>>
      BY <1>10, <2>2, <2>4 DEF LoadEnd, Step, PortShape, IsCall
    <3>. QED  BY <2>1, <2>2, <2>3, <3>1 DEF LoadInv, LoadFaithful
  <2>5. CASE ~ files[port.to].cut
    <3>1. /\ port'.pc = "loaded" /\ port'.at = a /\ port'.to = port.to
          /\ port'.before = port.before /\ dst' = Merge(dst, RowsOf(port.pend)) /\ UNCHANGED files
      BY <1>10, <2>2, <2>5 DEF LoadEnd, LastBatch, Step, PortShape, IsCall
    <3>2. a - p \in 0 .. a
      <4>1. a \in 0 .. Len(f) /\ p \in 0 .. a /\ Len(f) \in Nat
        BY <2>1, <2>2
      <4>. QED  BY ONLY <4>1
    <3>3. dst' = Merge(port.before, RowsOf(SubSeq(f, 1, a))) /\ IsFcn(dst')
      BY <2>1, <2>2, <3>1, <3>2, ApplyPart, MergeIsFcn
    <3>. QED  BY <2>1, <3>1, <3>3 DEF LoadInv, LoadFaithful
  <2>. QED  BY <2>4, <2>5
<1>. QED
  BY <1>2, <1>3, <1>4, <1>5, <1>6, <1>7, <1>8, <1>9, <1>10 DEF Next, PortNext, vars

\* load_store applies every frame of a file, or raises on a cut one with a whole
\* number of batches applied, whatever the batch size, the frames and the rows
\* that were there before (portability.py:143).
THEOREM LoadsAreFaithful == Spec => []LoadFaithful
<1>1. FileInv => PortShape
  BY DEF FileInv
<1>2. LoadInv => LoadFaithful
  BY DEF LoadInv
<1>. QED
  BY <1>1, <1>2, FileInit, FileStep, FiniteInit, FiniteStep, FramesInit, FramesStep, LoadInit,
     LoadStep, PTL DEF Spec

-----------------------------------------------------------------------------
(* The order of strings *)

\* s and t agree up to n, where s ends or has the smaller code point.
Parts(s, t, n) ==
  /\ n <= Len(s) /\ n < Len(t)
  /\ \A i \in 1 .. n : s[i] = t[i]
  /\ n = Len(s) \/ s[n + 1] < t[n + 1]

LEMMA Prefixed ==
  ASSUME NEW s \in Seq(Nat), NEW t \in Seq(Nat), NEW n \in Nat, n <= Len(s), n <= Len(t)
  PROVE  SubSeq(s, 1, n) = SubSeq(t, 1, n) <=> \A i \in 1 .. n : s[i] = t[i]
<1>. DEFINE u == SubSeq(s, 1, n)
            v == SubSeq(t, 1, n)
<1>1. u \in Seq(Nat) /\ Len(u) = n /\ \A i \in 1 .. n : u[i] = s[i]
  BY SubSeqProperties
<1>2. v \in Seq(Nat) /\ Len(v) = n /\ \A i \in 1 .. n : v[i] = t[i]
  BY SubSeqProperties
<1>. HIDE DEF u, v
<1>3. u = v <=> \A i \in 1 .. n : s[i] = t[i]
  BY <1>1, <1>2, SeqEqual
<1>. QED  BY <1>3 DEF u, v

LEMMA BelowParts ==
  ASSUME NEW s \in Seq(Nat), NEW t \in Seq(Nat)
  PROVE  Below(s, t) <=> \E n \in Nat : Parts(s, t, n)
<1>0. Len(s) \in Nat /\ Len(t) \in Nat /\ DOMAIN s = 1 .. Len(s) /\ DOMAIN t = 1 .. Len(t)
  OBVIOUS
<1>1. SubSeq(s, 1, Len(s)) = s
  BY SubSeqFull
<1>2. ASSUME Len(s) < Len(t), SubSeq(t, 1, Len(s)) = s PROVE \E n \in Nat : Parts(s, t, n)
  <2>1. SubSeq(s, 1, Len(s)) = SubSeq(t, 1, Len(s))
    BY <1>1, <1>2
  <2>2. \A i \in 1 .. Len(s) : s[i] = t[i]
    BY <1>0, <1>2, <2>1, Prefixed
  <2>3. Parts(s, t, Len(s))
    BY <1>0, <1>2, <2>2 DEF Parts
  <2>. QED  BY <1>0, <2>3
<1>3. ASSUME NEW i \in DOMAIN s \cap DOMAIN t, s[i] < t[i],
             SubSeq(s, 1, i - 1) = SubSeq(t, 1, i - 1)
      PROVE  \E n \in Nat : Parts(s, t, n)
  <2>1. i - 1 \in Nat /\ i - 1 <= Len(s) /\ i - 1 < Len(t) /\ i - 1 <= Len(t) /\ (i - 1) + 1 = i
    BY <1>0
  <2>2. \A j \in 1 .. i - 1 : s[j] = t[j]
    BY <1>3, <2>1, Prefixed
  <2>3. Parts(s, t, i - 1)
    BY <1>3, <2>1, <2>2 DEF Parts
  <2>. QED  BY <2>1, <2>3
<1>4. ASSUME NEW n \in Nat, Parts(s, t, n) PROVE Below(s, t)
  <2>0. n <= Len(s) /\ n < Len(t) /\ n <= Len(t)
    <3>1. n <= Len(s) /\ n < Len(t)
      BY <1>4 DEF Parts
    <3>. QED  BY <1>0, <3>1
  <2>1. SubSeq(s, 1, n) = SubSeq(t, 1, n)
    BY <1>4, <2>0, Prefixed DEF Parts
  <2>2. CASE n = Len(s)
    BY <1>1, <2>0, <2>1, <2>2 DEF Below
  <2>3. CASE n # Len(s) /\ s[n + 1] < t[n + 1]
    <3>1. n + 1 \in DOMAIN s \cap DOMAIN t /\ (n + 1) - 1 = n
      <4>1. n + 1 \in 1 .. Len(s) /\ n + 1 \in 1 .. Len(t) /\ (n + 1) - 1 = n
        <5>1. n # Len(s)
          BY <2>3
        <5>2. Len(s) \in Nat /\ Len(t) \in Nat
          BY <1>0
        <5>. QED  BY <2>0, <5>1, <5>2
      <4>. QED  BY <1>0, <4>1
    <3>. QED  BY <2>1, <2>3, <3>1 DEF Below
  <2>. QED  BY <1>4, <2>2, <2>3 DEF Parts
<1>. QED  BY <1>2, <1>3, <1>4 DEF Below

LEMMA BelowIrreflexive == ASSUME NEW s \in Seq(Nat) PROVE ~ Below(s, s)
<1>1. ASSUME NEW n \in Nat, Parts(s, s, n) PROVE FALSE
  <2>1. Len(s) \in Nat /\ n <= Len(s) /\ n < Len(s) /\ n + 1 \in 1 .. Len(s)
    BY <1>1 DEF Parts
  <2>2. s[n + 1] \in Nat
    BY <2>1
  <2>. QED  BY <1>1, <2>1, <2>2 DEF Parts
<1>. QED  BY <1>1, BelowParts

LEMMA BelowTransitive ==
  ASSUME NEW s \in Seq(Nat), NEW t \in Seq(Nat), NEW u \in Seq(Nat), Below(s, t), Below(t, u)
  PROVE  Below(s, u)
<1>0. Len(s) \in Nat /\ Len(t) \in Nat /\ Len(u) \in Nat
  OBVIOUS
<1>1. PICK m \in Nat : Parts(s, t, m)
  BY BelowParts
<1>2. PICK n \in Nat : Parts(t, u, n)
  BY BelowParts
<1>3. CASE m < n
  <2>1. m <= Len(s) /\ m < Len(u) /\ \A i \in 1 .. m : s[i] = u[i]
    BY <1>0, <1>1, <1>2, <1>3 DEF Parts
  <2>2. m + 1 \in 1 .. n /\ t[m + 1] = u[m + 1]
    BY <1>2, <1>3 DEF Parts
  <2>3. Parts(s, u, m)
    BY <1>1, <2>1, <2>2 DEF Parts
  <2>. QED  BY <2>3, BelowParts
<1>4. CASE n <= m
  <2>1. n <= Len(s) /\ n < Len(u) /\ \A i \in 1 .. n : s[i] = u[i]
    BY <1>0, <1>1, <1>2, <1>4 DEF Parts
  <2>2. CASE n = m
    <3>1. n < Len(t) /\ t[n + 1] < u[n + 1]
      BY <1>0, <1>1, <1>2, <2>2 DEF Parts
    <3>2. CASE n = Len(s)
      BY <2>1, <3>2, BelowParts DEF Parts
    <3>3. CASE n # Len(s)
      <4>1. s[n + 1] < t[n + 1] /\ n + 1 \in 1 .. Len(s) /\ n + 1 \in 1 .. Len(t) /\ n + 1 \in 1 .. Len(u)
        BY <1>0, <1>1, <2>1, <2>2, <3>1, <3>3 DEF Parts
      <4>2. s[n + 1] \in Nat /\ t[n + 1] \in Nat /\ u[n + 1] \in Nat
        BY <4>1
      <4>3. s[n + 1] < u[n + 1]
        BY <3>1, <4>1, <4>2
      <4>. QED  BY <2>1, <4>3, BelowParts DEF Parts
    <3>. QED  BY <3>2, <3>3
  <2>3. CASE n < m
    <3>1. s[n + 1] = t[n + 1] /\ n # Len(t)
      BY <1>0, <1>1, <2>3 DEF Parts
    <3>2. Parts(s, u, n)
      BY <1>2, <2>1, <3>1 DEF Parts
    <3>. QED  BY <3>2, BelowParts
  <2>. QED  BY <1>4, <2>2, <2>3
<1>. QED  BY <1>3, <1>4

LEMMA BelowTotal ==
  ASSUME NEW s \in Seq(Nat), NEW t \in Seq(Nat), s # t
  PROVE  Below(s, t) \/ Below(t, s)
<1>0. Len(s) \in Nat /\ Len(t) \in Nat
  OBVIOUS
<1>. DEFINE D == {n \in Nat : n < Len(s) /\ n < Len(t) /\ s[n + 1] # t[n + 1]}
<1>1. CASE D # {}
  <2>1. D \in SUBSET Nat
    OBVIOUS
  <2>2. PICK n \in D : \A k \in D : n <= k
    BY <1>1, <2>1, Smallest
  <2>3. ASSUME NEW i \in 1 .. n PROVE s[i] = t[i]
    <3>1. i - 1 \in Nat /\ i - 1 < n /\ i - 1 < Len(s) /\ i - 1 < Len(t) /\ (i - 1) + 1 = i
      BY <1>0, <2>2
    <3>2. i - 1 \notin D
      BY <2>2, <3>1
    <3>. QED  BY <3>1, <3>2
  <2>4. n \in Nat /\ n < Len(s) /\ n < Len(t) /\ s[n + 1] # t[n + 1]
    BY <2>2
  <2>5. s[n + 1] \in Nat /\ t[n + 1] \in Nat
    BY <1>0, <2>4
  <2>6. s[n + 1] < t[n + 1] \/ t[n + 1] < s[n + 1]
    BY <2>4, <2>5
  <2>7. Parts(s, t, n) \/ Parts(t, s, n)
    BY <1>0, <2>3, <2>4, <2>6 DEF Parts
  <2>. QED  BY <2>4, <2>7, BelowParts
<1>2. CASE D = {}
  <2>1. ASSUME NEW i \in 1 .. Len(s), i <= Len(t) PROVE s[i] = t[i]
    <3>1. i - 1 \in Nat /\ i - 1 < Len(s) /\ i - 1 < Len(t) /\ (i - 1) + 1 = i
      BY <1>0, <2>1
    <3>. QED  BY <1>2, <3>1
  <2>2. CASE Len(s) < Len(t)
    <3>1. Parts(s, t, Len(s))
      BY <1>0, <2>1, <2>2 DEF Parts
    <3>. QED  BY <1>0, <3>1, BelowParts
  <2>3. CASE Len(t) < Len(s)
    <3>1. Parts(t, s, Len(t))
      BY <1>0, <2>1, <2>3 DEF Parts
    <3>. QED  BY <1>0, <3>1, BelowParts
  <2>4. CASE Len(s) = Len(t)
    BY <1>0, <2>1, <2>4, SeqEqual
  <2>. QED  BY <1>0, <2>2, <2>3, <2>4
<1>. QED  BY <1>1, <1>2

\* The least of finitely many strings is one of them and below the others.
LEMMA LeastIs ==
  ASSUME NEW S \in SUBSET Seq(Nat), IsFiniteSet(S), S # {}
  PROVE  Least(S) \in S /\ \A t \in S \ {Least(S)} : Below(Least(S), t)
<1>. DEFINE Down(s) == {t \in S : Below(t, s)}
            F == {Down(s) : s \in S}
<1>1. F # {} /\ \A T \in F : IsFiniteSet(T)
  <2>1. \A s \in S : Down(s) \in SUBSET S
    OBVIOUS
  <2>2. \A s \in S : IsFiniteSet(Down(s))
    BY <2>1, FS_Subset
  <2>. HIDE DEF Down
  <2>. QED  BY <2>2
<1>. HIDE DEF F
<1>2. PICK T \in F : \A U \in F : ~ (U \subseteq T /\ U # T)
  BY <1>1, MinimalSet
<1>3. PICK s \in S : T = Down(s)
  BY <1>2 DEF F
<1>4. ASSUME NEW t \in S \ {s} PROVE Below(s, t)
  <2>1. SUFFICES ASSUME Below(t, s) PROVE FALSE
    BY BelowTotal
  <2>2. Down(t) \subseteq Down(s)
    BY <2>1, BelowTransitive
  <2>3. t \in Down(s) /\ t \notin Down(t)
    BY <2>1, BelowIrreflexive
  <2>4. Down(t) \in F
    BY DEF F
  <2>. QED  BY <1>2, <1>3, <2>2, <2>3, <2>4
<1>. DEFINE Q(u) == \A t \in S \ {u} : Below(u, t)
<1>5. Q(s)
  BY <1>4
<1>6. Least(S) = CHOOSE u \in S : Q(u)
  BY DEF Least
<1>. HIDE DEF Q
<1>7. Least(S) \in S /\ Q(Least(S))
  BY <1>5, <1>6
<1>. QED  BY <1>7 DEF Q

\* The greatest of finitely many numbers.
LEMMA GreatestOf ==
  ASSUME NEW M \in SUBSET Nat, IsFiniteSet(M), M # {}
  PROVE  \E m \in M : \A k \in M : k <= m
<1>. DEFINE Up(n) == {k \in M : k > n}
            F == {Up(n) : n \in M}
<1>1. F # {} /\ \A T \in F : IsFiniteSet(T)
  <2>1. \A n \in M : Up(n) \in SUBSET M
    OBVIOUS
  <2>2. \A n \in M : IsFiniteSet(Up(n))
    BY <2>1, FS_Subset
  <2>. HIDE DEF Up
  <2>. QED  BY <2>2
<1>. HIDE DEF F
<1>2. PICK T \in F : \A U \in F : ~ (U \subseteq T /\ U # T)
  BY <1>1, MinimalSet
<1>3. PICK m \in M : T = Up(m)
  BY <1>2 DEF F
<1>4. ASSUME NEW k \in M PROVE k <= m
  <2>1. SUFFICES ASSUME k > m PROVE FALSE
    OBVIOUS
  <2>2. Up(k) \subseteq Up(m)
    <3>1. \A j \in M : j > k => j > m
      BY <2>1
    <3>. QED  BY <3>1
  <2>4. k \in Up(m) /\ k \notin Up(k)
    BY <2>1
  <2>3. Up(k) \in F
    BY DEF F
  <2>. QED  BY <1>2, <1>3, <2>2, <2>3, <2>4
<1>. QED  BY <1>4

-----------------------------------------------------------------------------
(* Ranks in a finite linear order *)

Linear(D, R) ==
  /\ IsFiniteSet(D)
  /\ \A a \in D : <<a, a>> \notin R
  /\ \A a, b, c \in D : <<a, b>> \in R /\ <<b, c>> \in R => <<a, c>> \in R
  /\ \A a, b \in D : a # b => <<a, b>> \in R \/ <<b, a>> \in R

Before(D, R, k) == {l \in D : <<l, k>> \in R}

LEMMA RankRange ==
  ASSUME NEW D, NEW R, Linear(D, R), NEW k \in D
  PROVE  /\ IsFiniteSet(Before(D, R, k))
         /\ Cardinality(Before(D, R, k)) \in 0 .. Cardinality(D) - 1
<1>1. Before(D, R, k) \in SUBSET (D \ {k}) /\ IsFiniteSet(D)
  BY DEF Before, Linear
<1>2. IsFiniteSet(D \ {k}) /\ Cardinality(D \ {k}) = Cardinality(D) - 1
  BY <1>1, FS_RemoveElement
<1>3. Cardinality(D) \in Nat
  BY <1>1, FS_CardinalityType
<1>4. IsFiniteSet(Before(D, R, k)) /\ Cardinality(Before(D, R, k)) <= Cardinality(D) - 1
  BY <1>1, <1>2, FS_Subset
<1>5. Cardinality(Before(D, R, k)) \in Nat
  BY <1>4, FS_CardinalityType
<1>. QED  BY <1>3, <1>4, <1>5

LEMMA RankGrows ==
  ASSUME NEW D, NEW R, Linear(D, R), NEW a \in D, NEW b \in D, <<a, b>> \in R
  PROVE  Cardinality(Before(D, R, a)) < Cardinality(Before(D, R, b))
<1>. DEFINE A == Before(D, R, a)
            B == Before(D, R, b)
<1>1. A \in SUBSET B /\ A # B
  <2>1. \A l \in A : l \in B
    BY DEF Before, Linear
  <2>2. a \in B /\ a \notin A
    BY DEF Before, Linear
  <2>. QED  BY <2>1, <2>2
<1>2. IsFiniteSet(A) /\ IsFiniteSet(B)
  BY RankRange
<1>. HIDE DEF A, B
<1>3. Cardinality(A) <= Cardinality(B) /\ Cardinality(A) # Cardinality(B)
  BY <1>1, <1>2, FS_Subset
<1>4. Cardinality(A) \in Nat /\ Cardinality(B) \in Nat
  BY <1>2, FS_CardinalityType
<1>5. Cardinality(A) < Cardinality(B)
  BY <1>3, <1>4
<1>. QED  BY <1>5 DEF A, B

LEMMA RankInjective ==
  ASSUME NEW D, NEW R, Linear(D, R), NEW a \in D, NEW b \in D,
         Cardinality(Before(D, R, a)) = Cardinality(Before(D, R, b))
  PROVE  a = b
<1>1. SUFFICES ASSUME a # b PROVE FALSE
  OBVIOUS
<1>2. <<a, b>> \in R \/ <<b, a>> \in R
  BY <1>1 DEF Linear
<1>3. Cardinality(Before(D, R, a)) < Cardinality(Before(D, R, b))
      \/ Cardinality(Before(D, R, b)) < Cardinality(Before(D, R, a))
  BY <1>2, RankGrows
<1>4. Cardinality(Before(D, R, a)) \in Int /\ Cardinality(Before(D, R, b)) \in Int
  <2>1. /\ Cardinality(Before(D, R, a)) \in 0 .. Cardinality(D) - 1
        /\ Cardinality(Before(D, R, b)) \in 0 .. Cardinality(D) - 1
    BY RankRange
  <2>. QED  BY <2>1
<1>. QED  BY <1>3, <1>4

LEMMA RankSurjective ==
  ASSUME NEW D, NEW R, Linear(D, R), NEW i \in 0 .. Cardinality(D) - 1
  PROVE  \E a \in D : Cardinality(Before(D, R, a)) = i
<1>. DEFINE n    == Cardinality(D)
            rank == [k \in D |-> Cardinality(Before(D, R, k))]
<1>1. IsFiniteSet(D) /\ n \in Nat
  BY FS_CardinalityType DEF Linear
<1>2. rank \in Injection(D, 0 .. n - 1)
  <2>1. \A k \in D : rank[k] \in 0 .. n - 1
    BY RankRange
  <2>2. \A a, b \in D : rank[a] = rank[b] => a = b
    BY RankInjective
  <2>3. rank \in [D -> 0 .. n - 1]
    <3>. HIDE DEF n
    <3>. QED  BY <2>1
  <2>. HIDE DEF n, rank
  <2>. QED  BY <2>2, <2>3 DEF Injection, IsInjective
<1>3. IsFiniteSet(0 .. n - 1) /\ Cardinality(0 .. n - 1) = n
  <2>1. 0 \in Int /\ n - 1 \in Int
    BY <1>1
  <2>2. IsFiniteSet(0 .. n - 1) /\ Cardinality(0 .. n - 1) = IF 0 > n - 1 THEN 0 ELSE (n - 1) - 0 + 1
    BY <2>1, FS_Interval
  <2>. HIDE DEF n
  <2>. QED  BY <1>1, <2>2
<1>. HIDE DEF rank
<1>4. rank \in Surjection(D, 0 .. n - 1)
  BY <1>2, <1>3, FS_Injection
<1>5. \E a \in D : rank[a] = i
  BY <1>4 DEF Surjection
<1>. QED  BY <1>5 DEF rank

\* The first L of a linear order.
LEMMA FirstRanks ==
  ASSUME NEW D, NEW R, Linear(D, R), NEW L \in Nat
  PROVE  LET T == {k \in D : Cardinality(Before(D, R, k)) < L}
         IN  /\ IsFiniteSet(T) /\ Cardinality(T) <= L
             /\ \A k \in D \ T : Cardinality(T) = L /\ \A t \in T : <<t, k>> \in R
<1>. DEFINE rank(k) == Cardinality(Before(D, R, k))
            T == {k \in D : rank(k) < L}
            f == [k \in T |-> rank(k)]
<1>1. \A k \in D : rank(k) \in Nat /\ rank(k) \in 0 .. Cardinality(D) - 1
  <2>1. \A k \in D : rank(k) \in 0 .. Cardinality(D) - 1
    BY RankRange
  <2>. QED  BY <2>1
<1>2. f \in Injection(T, 0 .. L - 1)
  <2>1. \A k \in T : f[k] \in 0 .. L - 1
    <3>. HIDE DEF rank
    <3>. QED  BY <1>1
  <2>2. \A a, b \in T : f[a] = f[b] => a = b
    BY RankInjective
  <2>3. f \in [T -> 0 .. L - 1]
    <3>. HIDE DEF rank
    <3>. QED  BY <2>1
  <2>. HIDE DEF T, f
  <2>. QED  BY <2>2, <2>3 DEF Injection, IsInjective
<1>3. IsFiniteSet(0 .. L - 1) /\ Cardinality(0 .. L - 1) = L
  <2>1. 0 \in Int /\ L - 1 \in Int
    OBVIOUS
  <2>2. IsFiniteSet(0 .. L - 1) /\ Cardinality(0 .. L - 1) = IF 0 > L - 1 THEN 0 ELSE (L - 1) - 0 + 1
    BY <2>1, FS_Interval
  <2>. QED  BY <2>2
<1>4. IsFiniteSet(T) /\ Cardinality(T) <= L
      /\ (Cardinality(T) = L <=> f \in Surjection(T, 0 .. L - 1))
  <2>. HIDE DEF T, f
  <2>. QED  BY <1>2, <1>3, FS_Injection
<1>5. ASSUME NEW k \in D \ T PROVE Cardinality(T) = L /\ \A t \in T : <<t, k>> \in R
  <2>1. ~ (rank(k) < L)
    OBVIOUS
  <2>2. L <= rank(k) /\ L <= Cardinality(D) - 1 /\ Cardinality(D) \in Nat
    <3>1. Cardinality(D) \in Nat
      BY FS_CardinalityType DEF Linear
    <3>2. PICK m : m = rank(k)
      OBVIOUS
    <3>3. m \in Nat /\ m \in 0 .. Cardinality(D) - 1 /\ ~ (m < L)
      BY <1>1, <2>1, <3>2
    <3>. QED  BY <3>1, <3>2, <3>3
  <2>3. \A i \in 0 .. L - 1 : \E t \in T : f[t] = i
    <3>. TAKE i \in 0 .. L - 1
    <3>1. i \in 0 .. Cardinality(D) - 1 /\ i < L
      BY <2>2
    <3>2. PICK a \in D : rank(a) = i
      BY <3>1, RankSurjective
    <3>. HIDE DEF rank
    <3>. QED  BY <3>1, <3>2
  <2>4. f \in Surjection(T, 0 .. L - 1)
    <3>1. f \in [T -> 0 .. L - 1]
      BY <1>2 DEF Injection
    <3>. QED  BY <2>3, <3>1 DEF Surjection
  <2>5. ASSUME NEW t \in T PROVE <<t, k>> \in R
    <3>1. t # k /\ t \in D /\ k \in D /\ rank(t) < L
      BY <2>5
    <3>2. SUFFICES ASSUME <<k, t>> \in R PROVE FALSE
      BY <3>1 DEF Linear
    <3>3. rank(k) < rank(t)
      BY <3>1, <3>2, RankGrows
    <3>4. rank(k) \in Nat /\ rank(t) \in Nat
      BY <1>1, <3>1
    <3>. HIDE DEF rank
    <3>. QED  BY <2>2, <3>1, <3>3, <3>4
  <2>. QED  BY <1>4, <2>4, <2>5
<1>. QED  BY <1>4, <1>5

-----------------------------------------------------------------------------
(* The memory of a crew *)

IsWork(w) ==
  w = [pc |-> w.pc, key |-> w.key, val |-> w.val, min |-> w.min, ks |-> w.ks, got |-> w.got]

WorkOK(w) ==
  /\ IsWork(w)
  /\ w.ks \subseteq Seq(Nat) /\ IsFiniteSet(w.ks)
  /\ w.pc = "set" => w.key \in Seq(Nat) /\ Len(w.key) = 2

CrewTypes ==
  /\ DOMAIN src \subseteq Seq(Point) \X Seq(Nat)
  /\ seqs \in [Object -> Nat \cup {Unset}]
  /\ used \subseteq Suffix
  /\ crew = [c \in Caller |-> crew[c]]
  /\ \A c \in Caller : WorkOK(crew[c])

LEMMA KeysAreStrings ==
  ASSUME CrewTypes, NEW n PROVE keys(n) \subseteq Seq(Nat)
BY DEF CrewTypes, keys

\* _highest_seq is no smaller than the number of any key that parses.
LEMMA HighestIs ==
  ASSUME CrewTypes, IsFiniteSet(DOMAIN src)
  PROVE  Highest \in Nat /\ \A k \in keys(CrewNs) : Parses(k) => k[1] \in Nat /\ k[1] <= Highest
<1>. DEFINE P  == {l \in keys(CrewNs) : Parses(l)}
            f  == [k \in P |-> k[1]]
            T  == {k[1] : k \in P}
            ns == T \cup {0}
            Q(n) == \A m \in ns : m <= n
<1>1. IsFiniteSet(P)
  BY FiniteKeys, FS_Subset
<1>2. f \in Surjection(P, T)
  BY DEF Surjection
<1>3. IsFiniteSet(ns)
  BY <1>1, <1>2, FS_Surjection, FS_AddElement
<1>4. \A k \in P : k[1] \in Nat
  BY KeysAreStrings DEF Parses
<1>5. ns \in SUBSET Nat /\ ns # {}
  BY <1>4
<1>6. PICK n \in ns : Q(n)
  BY <1>3, <1>5, GreatestOf
<1>7. Highest = CHOOSE m \in ns : Q(m)
  BY DEF Highest
<1>8. Highest \in ns /\ Q(Highest)
  <2>. HIDE DEF Q, ns
  <2>. QED  BY <1>6, <1>7
<1>9. \A k \in P : k[1] \in ns
  OBVIOUS
<1>. QED  BY <1>4, <1>5, <1>8, <1>9

LEMMA IdleOK == WorkOK(Idle) /\ Idle.pc = "idle" /\ Idle.ks = {}
BY FS_EmptySet DEF WorkOK, IsWork, Idle

LEMMA WorkTaken ==
  ASSUME NEW w, IsWork(w), NEW x
  PROVE  /\ IsWork([w EXCEPT !.ks = x]) /\ [w EXCEPT !.ks = x].ks = x
         /\ [w EXCEPT !.ks = x].pc = w.pc /\ [w EXCEPT !.ks = x].key = w.key
         /\ [w EXCEPT !.ks = x].val = w.val /\ [w EXCEPT !.ks = x].min = w.min
         /\ [w EXCEPT !.ks = x].got = w.got
BY DEF IsWork

LEMMA WorkGot ==
  ASSUME NEW w, IsWork(w), NEW x
  PROVE  /\ IsWork([w EXCEPT !.got = x]) /\ [w EXCEPT !.got = x].got = x
         /\ [w EXCEPT !.got = x].pc = w.pc /\ [w EXCEPT !.got = x].key = w.key
         /\ [w EXCEPT !.got = x].val = w.val /\ [w EXCEPT !.got = x].min = w.min
         /\ [w EXCEPT !.got = x].ks = w.ks
BY DEF IsWork

LEMMA WorkAt ==
  ASSUME NEW w, IsWork(w), NEW x
  PROVE  /\ IsWork([w EXCEPT !.pc = x]) /\ [w EXCEPT !.pc = x].pc = x
         /\ [w EXCEPT !.pc = x].got = w.got /\ [w EXCEPT !.pc = x].key = w.key
         /\ [w EXCEPT !.pc = x].val = w.val /\ [w EXCEPT !.pc = x].min = w.min
         /\ [w EXCEPT !.pc = x].ks = w.ks
BY DEF IsWork

\* What a step of one caller does to the work of the callers.
LEMMA OneWorks ==
  ASSUME CrewTypes, NEW c \in Caller, NEW w, crew' = [crew EXCEPT ![c] = w]
  PROVE  /\ crew' = [d \in Caller |-> crew'[d]]
         /\ crew'[c] = w /\ \A d \in Caller : d # c => crew'[d] = crew[d]
BY DEF CrewTypes

LEMMA SaveKeyIs ==
  ASSUME CrewTypes, NEW c \in Caller, NEW text, SaveKey(c, text), IsFiniteSet(DOMAIN src)
  PROVE  \E n, s, w :
           /\ n \in Nat /\ s \in Suffix \ used
           /\ n > (IF seqs[ObjOf[c]] = Unset THEN Highest ELSE seqs[ObjOf[c]])
           /\ seqs' = [seqs EXCEPT ![ObjOf[c]] = n] /\ ObjOf[c] \in Object
           /\ used' = used \cup {s}
           /\ crew' = [crew EXCEPT ![c] = w] /\ WorkOK(w)
           /\ w.pc = "set" /\ w.key = <<n, s>> /\ w.val.metadata = ObjOf[c] /\ w.val.value = text
           /\ crew[c].pc = "idle" /\ UNCHANGED src
<1>. DEFINE o == ObjOf[c]
            b == IF seqs[o] = Unset THEN Highest ELSE seqs[o]
            n == b + 1
<1>1. b \in Nat /\ o \in Object
  BY HighestIs, CrewAssumption DEF CrewTypes
<1>2. PICK s \in Suffix \ used :
         /\ used' = used \cup {s}
         /\ crew' = [crew EXCEPT ![c] = [Idle EXCEPT !.pc = "set", !.key = <<n, s>>,
                                            !.val = [value |-> text, metadata |-> o]]]
  BY DEF SaveKey, FreshSuffix
<1>a. PICK v : v = [value |-> text, metadata |-> o]
  OBVIOUS
<1>b. PICK k : k = <<n, s>>
  OBVIOUS
<1>3. v = [value |-> text, metadata |-> o] /\ v.metadata = o /\ v.value = text /\ k = <<n, s>>
  BY <1>a, <1>b
<1>4. PICK w : w = [Idle EXCEPT !.pc = "set", !.key = k, !.val = v]
  OBVIOUS
<1>5. IsWork(w) /\ w.pc = "set" /\ w.key = k /\ w.val = v /\ w.ks = {}
  BY <1>4 DEF Idle, IsWork
<1>6. k \in Seq(Nat) /\ Len(k) = 2
  BY <1>1, <1>3, CrewAssumption
<1>7. WorkOK(w)
  BY <1>5, <1>6, FS_EmptySet DEF WorkOK
<1>8. seqs' = [seqs EXCEPT ![o] = n] /\ crew[c].pc = "idle" /\ UNCHANGED src
  BY DEF SaveKey
<1>9. n \in Nat /\ n > b /\ crew' = [crew EXCEPT ![c] = w]
  BY <1>1, <1>2, <1>3, <1>4
<1>10. w.key = <<n, s>> /\ w.val.metadata = o /\ w.val.value = text
  BY <1>3, <1>5
<1>. HIDE DEF n, b
<1>11. seqs' = [seqs EXCEPT ![o] = n] /\ o \in Object /\ used' = used \cup {s} /\ w.pc = "set"
  BY <1>1, <1>2, <1>5, <1>8
<1>12. n > (IF seqs[o] = Unset THEN Highest ELSE seqs[o])
  BY <1>9 DEF b
<1>. QED  BY <1>7, <1>8, <1>9, <1>10, <1>11, <1>12

\* A search takes the least key that is left, and what it finds there.
LEMMA SearchGetIs ==
  ASSUME CrewTypes, NEW c \in Caller, SearchGet(c)
  PROVE  \E w : LET k     == Least(crew[c].ks)
                    r     == <<CrewNs, k>>
                    found == r \in DOMAIN src /\ src[r] # Null
                IN  /\ crew' = [crew EXCEPT ![c] = w] /\ IsWork(w) /\ w.pc = "get"
                    /\ w.key = crew[c].key /\ w.val = crew[c].val /\ w.min = crew[c].min
                    /\ w.ks = crew[c].ks \ {k} /\ crew[c].pc = "get" /\ crew[c].ks # {}
                    /\ w.got = IF found /\ Score[src[r].value] >= crew[c].min
                               THEN Merge(crew[c].got, [x \in {k} |-> src[r]]) ELSE crew[c].got
                    /\ UNCHANGED <<src, seqs, used>> /\ UNCHANGED store
<1>. DEFINE k     == Least(crew[c].ks)
            r     == <<CrewNs, k>>
            found == r \in DOMAIN src /\ src[r] # Null
            g     == IF found /\ Score[src[r].value] >= crew[c].min
                     THEN Merge(crew[c].got, [x \in {k} |-> src[r]]) ELSE crew[c].got
            x     == crew[c].ks \ {k}
<1>1. /\ crew' = [crew EXCEPT ![c].ks = x, ![c].got = g]
      /\ UNCHANGED <<src, seqs, used>> /\ UNCHANGED store /\ crew[c].pc = "get" /\ crew[c].ks # {}
  BY DEF SearchGet, KeepGoing, store
<1>. HIDE DEF g, x
<1>2. PICK z : z = crew[c] /\ IsWork(z) /\ c \in DOMAIN crew
  BY DEF CrewTypes, WorkOK
<1>3. PICK v : v = [z EXCEPT !.ks = x]
  OBVIOUS
<1>4. /\ IsWork(v) /\ v.ks = x /\ v.pc = z.pc /\ v.key = z.key /\ v.val = z.val /\ v.min = z.min
      /\ v.got = z.got
  BY <1>2, <1>3, WorkTaken
<1>5. PICK w : w = [v EXCEPT !.got = g]
  OBVIOUS
<1>6. /\ IsWork(w) /\ w.ks = x /\ w.pc = z.pc /\ w.key = z.key /\ w.val = z.val /\ w.min = z.min
      /\ w.got = g
  BY <1>4, <1>5, WorkGot
<1>7. crew' = [crew EXCEPT ![c] = w]
  BY <1>1, <1>2, <1>3, <1>5
<1>. QED  BY <1>1, <1>2, <1>6, <1>7 DEF g, x

LEMMA SearchRankIs ==
  ASSUME CrewTypes, NEW c \in Caller, SearchRank(c)
  PROVE  \E w : /\ crew' = [crew EXCEPT ![c] = w] /\ IsWork(w) /\ w.pc = "found"
                /\ w.min = crew[c].min /\ w.ks = {}
                /\ w.got = Only(crew[c].got, Top(crew[c].got))
                /\ crew[c].pc = "get" /\ crew[c].ks = {}
                /\ UNCHANGED <<src, seqs, used>> /\ UNCHANGED store
<1>. DEFINE g == Only(crew[c].got, Top(crew[c].got))
<1>1. /\ crew' = [crew EXCEPT ![c].pc = "found", ![c].got = g]
      /\ UNCHANGED <<src, seqs, used>> /\ UNCHANGED store /\ crew[c].pc = "get" /\ crew[c].ks = {}
  BY DEF SearchRank, store
<1>. HIDE DEF g
<1>2. PICK z : z = crew[c] /\ IsWork(z) /\ c \in DOMAIN crew
  BY DEF CrewTypes, WorkOK
<1>3. PICK v : v = [z EXCEPT !.pc = "found"]
  OBVIOUS
<1>4. IsWork(v) /\ v.ks = z.ks /\ v.pc = "found" /\ v.min = z.min
  BY <1>2, <1>3, WorkAt
<1>5. PICK w : w = [v EXCEPT !.got = g]
  OBVIOUS
<1>6. IsWork(w) /\ w.ks = z.ks /\ w.pc = "found" /\ w.min = z.min /\ w.got = g
  BY <1>4, <1>5, WorkGot
<1>7. crew' = [crew EXCEPT ![c] = w]
  BY <1>1, <1>2, <1>3, <1>5
<1>. QED  BY <1>1, <1>2, <1>6, <1>7 DEF g

LEMMA ResetDeleteIs ==
  ASSUME CrewTypes, NEW c \in Caller, ResetDelete(c)
  PROVE  \E w : /\ crew' = [crew EXCEPT ![c] = w] /\ IsWork(w) /\ w.pc = "delete"
                /\ w.ks = crew[c].ks \ {Least(crew[c].ks)}
                /\ crew[c].pc = "delete" /\ crew[c].ks # {}
                /\ src' = Without(src, {<<CrewNs, Least(crew[c].ks)>>})
                /\ UNCHANGED <<seqs, used>>
<1>. DEFINE x == crew[c].ks \ {Least(crew[c].ks)}
<1>1. /\ crew' = [crew EXCEPT ![c].ks = x] /\ crew[c].pc = "delete" /\ crew[c].ks # {}
      /\ src' = Without(src, {<<CrewNs, Least(crew[c].ks)>>}) /\ UNCHANGED <<seqs, used>>
  BY DEF ResetDelete, Becomes
<1>. HIDE DEF x
<1>2. PICK z : z = crew[c] /\ IsWork(z) /\ c \in DOMAIN crew
  BY DEF CrewTypes, WorkOK
<1>3. PICK w : w = [z EXCEPT !.ks = x]
  OBVIOUS
<1>4. IsWork(w) /\ w.ks = x /\ w.pc = z.pc
  BY <1>2, <1>3, WorkTaken, SMTT(60)
<1>5. crew' = [crew EXCEPT ![c] = w]
  BY <1>1, <1>2, <1>3
<1>. QED  BY <1>1, <1>2, <1>4, <1>5 DEF x

LEMMA CrewTypesInit == Init => CrewTypes
BY RowsAssumption, IdleOK DEF Init, CrewInit, CrewTypes

LEMMA CrewTypesStep == FiniteInv /\ CrewTypes /\ [Next]_vars => CrewTypes'
<1>. SUFFICES ASSUME FiniteInv, CrewTypes, [Next]_vars PROVE CrewTypes'
  OBVIOUS
<1>1. ASSUME NEW c \in Caller, NEW w, crew' = [crew EXCEPT ![c] = w], WorkOK(w)
      PROVE  crew' = [d \in Caller |-> crew'[d]] /\ \A d \in Caller : WorkOK(crew'[d])
  BY <1>1, OneWorks DEF CrewTypes
<1>3. CASE UNCHANGED crewvars /\ UNCHANGED src
  BY <1>3 DEF crewvars, CrewTypes, WorkOK, IsWork
<1>4. ASSUME NEW r \in DOMAIN Rows, Delete(r) \/ \E v : Write(r, v), UNCHANGED crewvars PROVE CrewTypes'
  <2>1. DOMAIN src' \subseteq DOMAIN src \cup {r}
    BY <1>4 DEF Delete, Write, Becomes, Merge, Without
  <2>2. DOMAIN src' \subseteq Seq(Point) \X Seq(Nat)
    BY <2>1, RowsAssumption DEF CrewTypes
  <2>. QED  BY <1>4, <2>2 DEF crewvars, CrewTypes
<1>5. ASSUME NEW c \in Caller, NEW text, SaveKey(c, text) PROVE CrewTypes'
  <2>1. PICK n, s, w :
           /\ n \in Nat /\ s \in Suffix \ used
           /\ seqs' = [seqs EXCEPT ![ObjOf[c]] = n] /\ ObjOf[c] \in Object
           /\ used' = used \cup {s}
           /\ crew' = [crew EXCEPT ![c] = w] /\ WorkOK(w) /\ UNCHANGED src
    BY <1>5, SaveKeyIs DEF FiniteInv
  <2>2. seqs' \in [Object -> Nat \cup {Unset}]
    BY <2>1 DEF CrewTypes
  <2>. QED  BY <1>1, <2>1, <2>2 DEF CrewTypes
<1>6. ASSUME NEW c \in Caller, SaveSet(c) PROVE CrewTypes'
  <2>1. DOMAIN src' = DOMAIN src \cup {<<CrewNs, crew[c].key>>}
    BY <1>6 DEF SaveSet, Becomes, Merge
  <2>2. DOMAIN src' \subseteq Seq(Point) \X Seq(Nat)
    BY <1>6, <2>1, CrewAssumption DEF SaveSet, CrewTypes, WorkOK
  <2>3. crew' = [crew EXCEPT ![c] = Idle] /\ UNCHANGED <<seqs, used>>
    BY <1>6 DEF SaveSet
  <2>. QED  BY <1>1, <2>2, <2>3, IdleOK DEF CrewTypes
<1>7. ASSUME NEW c \in Caller, NEW pc \in {"get", "delete"}, NEW min, List(c, pc, min) PROVE CrewTypes'
  <2>1. PICK w : w = [Idle EXCEPT !.pc = pc, !.min = min, !.ks = keys(CrewNs)]
    OBVIOUS
  <2>2. IsWork(w) /\ w.pc = pc /\ w.ks = keys(CrewNs)
    BY <2>1 DEF Idle, IsWork
  <2>3. WorkOK(w)
    BY <2>2, KeysAreStrings, FiniteKeys DEF WorkOK, FiniteInv
  <2>4. crew' = [crew EXCEPT ![c] = w] /\ UNCHANGED <<src, seqs, used>>
    BY <1>7, <2>1 DEF List
  <2>. QED  BY <1>1, <2>3, <2>4 DEF CrewTypes
<1>8. ASSUME NEW c \in Caller, SearchGet(c) PROVE CrewTypes'
  <2>1. PICK w : /\ crew' = [crew EXCEPT ![c] = w] /\ IsWork(w) /\ w.pc = "get"
                 /\ w.ks = crew[c].ks \ {Least(crew[c].ks)} /\ UNCHANGED <<src, seqs, used>>
    BY <1>8, SearchGetIs
  <2>2. IsFiniteSet(w.ks) /\ w.ks \subseteq Seq(Nat)
    <3>1. IsFiniteSet(crew[c].ks) /\ crew[c].ks \subseteq Seq(Nat)
      BY DEF CrewTypes, WorkOK
    <3>. QED  BY <2>1, <3>1, FS_Difference
  <2>3. WorkOK(w)
    BY <2>1, <2>2 DEF WorkOK
  <2>. QED  BY <1>1, <2>1, <2>3 DEF CrewTypes
<1>9. ASSUME NEW c \in Caller, SearchRank(c) PROVE CrewTypes'
  <2>1. PICK w : /\ crew' = [crew EXCEPT ![c] = w] /\ IsWork(w) /\ w.pc = "found"
                 /\ w.ks = {} /\ UNCHANGED <<src, seqs, used>>
    BY <1>9, SearchRankIs
  <2>2. WorkOK(w)
    BY <2>1, FS_EmptySet DEF WorkOK
  <2>. QED  BY <1>1, <2>1, <2>2 DEF CrewTypes
<1>10. ASSUME NEW c \in Caller, ResetDelete(c) PROVE CrewTypes'
  <2>1. PICK w : /\ crew' = [crew EXCEPT ![c] = w] /\ IsWork(w) /\ w.pc = "delete"
                 /\ w.ks = crew[c].ks \ {Least(crew[c].ks)} /\ UNCHANGED <<seqs, used>>
    BY <1>10, ResetDeleteIs
  <2>2. IsFiniteSet(w.ks) /\ w.ks \subseteq Seq(Nat)
    <3>1. IsFiniteSet(crew[c].ks) /\ crew[c].ks \subseteq Seq(Nat)
      BY DEF CrewTypes, WorkOK
    <3>. QED  BY <2>1, <3>1, FS_Difference
  <2>3. WorkOK(w)
    BY <2>1, <2>2 DEF WorkOK
  <2>4. DOMAIN src' \subseteq DOMAIN src
    BY <1>10 DEF ResetDelete, Becomes, Without
  <2>. QED  BY <1>1, <2>1, <2>3, <2>4 DEF CrewTypes
<1>11. ASSUME NEW c \in Caller, Done(c) PROVE CrewTypes'
  <2>1. crew' = [crew EXCEPT ![c] = Idle] /\ UNCHANGED <<src, seqs, used>>
    BY <1>11 DEF Done
  <2>. QED  BY <1>1, <2>1, IdleOK DEF CrewTypes
<1>12. ASSUME NEW o \in Object, Restart(o) PROVE CrewTypes'
  BY <1>12, IdleOK DEF Restart, CrewTypes
<1>13. CASE PortNext /\ UNCHANGED crewvars
  BY <1>3, <1>13, PortKeepsSource
<1>14. CASE CrewNext
  BY <1>5, <1>6, <1>7, <1>8, <1>9, <1>10, <1>11, <1>12, <1>14 DEF CrewNext, search, reset
<1>15. CASE UNCHANGED vars
  BY <1>3, <1>15 DEF vars, store, crewvars
<1>. QED  BY <1>4, <1>13, <1>14, <1>15 DEF Next

\* The suffix of a save that is under way is nobody else's, and not stored yet.
SuffixInv ==
  /\ \A c \in Caller : crew[c].pc = "set" =>
       /\ crew[c].key[2] \in used
       /\ \A d \in Caller \ {c} : crew[d].pc = "set" => crew[d].key[2] # crew[c].key[2]
       /\ \A r \in CrewRows : Parses(r[2]) => r[2][2] # crew[c].key[2]
  /\ \A r \in CrewRows : Parses(r[2]) /\ r[2][2] \in Suffix => r[2][2] \in used

\* The counter of an object that has begun to count is no smaller than the number of
\* any of its memories, stored or about to be.
NumberInv ==
  /\ \A c \in Caller : crew[c].pc = "set" =>
       /\ crew[c].val.metadata = ObjOf[c]
       /\ seqs[ObjOf[c]] # Unset /\ crew[c].key[1] <= seqs[ObjOf[c]]
  /\ \A o \in Object, r \in CrewRows :
       Parses(r[2]) /\ seqs[o] # Unset /\ src[r].metadata = o => r[2][1] <= seqs[o]

\* A step that begins and ends no save.
Quiet ==
  /\ used' = used
  /\ \A c \in Caller : crew'[c].pc = "set" =>
       crew[c].pc = "set" /\ crew'[c].key = crew[c].key /\ crew'[c].val = crew[c].val
  /\ \A r \in CrewRows' : r \in CrewRows /\ src'[r] = src[r]
  /\ \A o \in Object :
       \/ seqs'[o] = seqs[o]
       \/ seqs'[o] = Unset /\ \A c \in Caller : ObjOf[c] = o => crew'[c].pc # "set"

LEMMA CrewSteps ==
  ASSUME CrewTypes, [Next]_vars
  PROVE  \/ Quiet
         \/ \E c \in Caller : SaveSet(c) \/ \E text \in Text : SaveKey(c, text)
<1>1. ASSUME NEW c \in Caller, NEW w, crew' = [crew EXCEPT ![c] = w], w.pc # "set",
             UNCHANGED <<used, seqs>>, \A r \in CrewRows' : r \in CrewRows /\ src'[r] = src[r]
      PROVE  Quiet
  BY <1>1, OneWorks DEF Quiet
<1>2. UNCHANGED src => \A r \in CrewRows' : r \in CrewRows /\ src'[r] = src[r]
  BY DEF CrewRows
<1>3. CASE UNCHANGED crewvars /\ UNCHANGED src
  BY <1>2, <1>3 DEF crewvars, Quiet
<1>4. ASSUME NEW r \in {q \in DOMAIN Rows : q[1] # CrewNs},
             Delete(r) \/ \E v : Write(r, v), UNCHANGED crewvars
      PROVE  Quiet
  <2>1. \A q \in CrewRows' : q \in CrewRows /\ src'[q] = src[q]
    BY <1>4 DEF Delete, Write, Becomes, Merge, Without, CrewRows
  <2>. QED  BY <1>4, <2>1 DEF crewvars, Quiet
<1>5. ASSUME NEW c \in Caller, NEW pc \in {"get", "delete"}, NEW min, List(c, pc, min) PROVE Quiet
  <2>1. PICK w : w = [Idle EXCEPT !.pc = pc, !.min = min, !.ks = keys(CrewNs)]
    OBVIOUS
  <2>2. w.pc = pc
    BY <2>1 DEF Idle
  <2>3. crew' = [crew EXCEPT ![c] = w] /\ UNCHANGED <<src, seqs, used>>
    BY <1>5, <2>1 DEF List
  <2>. QED  BY <1>1, <1>2, <2>2, <2>3
<1>6. ASSUME NEW c \in Caller, SearchGet(c) PROVE Quiet
  <2>1. PICK w : /\ crew' = [crew EXCEPT ![c] = w] /\ w.pc = "get" /\ UNCHANGED <<src, seqs, used>>
    BY <1>6, SearchGetIs
  <2>. QED  BY <1>1, <1>2, <2>1
<1>7. ASSUME NEW c \in Caller, SearchRank(c) PROVE Quiet
  <2>1. PICK w : /\ crew' = [crew EXCEPT ![c] = w] /\ w.pc = "found" /\ UNCHANGED <<src, seqs, used>>
    BY <1>7, SearchRankIs
  <2>. QED  BY <1>1, <1>2, <2>1
<1>8. ASSUME NEW c \in Caller, ResetDelete(c) PROVE Quiet
  <2>1. PICK w : /\ crew' = [crew EXCEPT ![c] = w] /\ w.pc = "delete" /\ UNCHANGED <<seqs, used>>
                 /\ src' = Without(src, {<<CrewNs, Least(crew[c].ks)>>})
    BY <1>8, ResetDeleteIs
  <2>2. \A r \in CrewRows' : r \in CrewRows /\ src'[r] = src[r]
    BY <2>1 DEF Without, CrewRows
  <2>. QED  BY <1>1, <2>1, <2>2
<1>9. ASSUME NEW c \in Caller, Done(c) PROVE Quiet
  <2>1. crew' = [crew EXCEPT ![c] = Idle] /\ UNCHANGED <<src, seqs, used>>
    BY <1>9 DEF Done
  <2>. QED  BY <1>1, <1>2, <2>1, IdleOK
<1>10. ASSUME NEW o \in Object, Restart(o) PROVE Quiet
  BY <1>2, <1>10, IdleOK DEF Restart, Quiet, CrewTypes
<1>11. CASE PortNext /\ UNCHANGED crewvars
  BY <1>3, <1>11, PortKeepsSource
<1>12. CASE CrewNext
  BY <1>5, <1>6, <1>7, <1>8, <1>9, <1>10, <1>12 DEF CrewNext, search, reset
<1>13. CASE UNCHANGED vars
  BY <1>3, <1>13 DEF vars, store, crewvars
<1>. QED  BY <1>4, <1>11, <1>12, <1>13 DEF Next

LEMMA SaveSetIs ==
  ASSUME CrewTypes, NEW c \in Caller, SaveSet(c)
  PROVE  /\ crew[c].pc = "set" /\ crew'[c].pc = "idle" /\ UNCHANGED <<seqs, used>>
         /\ \A d \in Caller \ {c} : crew'[d] = crew[d]
         /\ \A r \in CrewRows' : \/ r = <<CrewNs, crew[c].key>> /\ src'[r] = crew[c].val
                                 \/ r # <<CrewNs, crew[c].key>> /\ r \in CrewRows /\ src'[r] = src[r]
         /\ \A r \in DOMAIN src : r # <<CrewNs, crew[c].key>> => r \in DOMAIN src' /\ src'[r] = src[r]
<1>1. /\ src' = Merge(src, [r \in {<<CrewNs, crew[c].key>>} |-> crew[c].val])
      /\ crew' = [crew EXCEPT ![c] = Idle] /\ crew[c].pc = "set" /\ UNCHANGED <<seqs, used>>
  BY DEF SaveSet, Becomes
<1>2. crew'[c].pc = "idle" /\ \A d \in Caller \ {c} : crew'[d] = crew[d]
  BY <1>1, OneWorks, IdleOK
<1>. QED  BY <1>1, <1>2 DEF Merge, CrewRows

LEMMA SuffixInit == Init => SuffixInv
BY RowsAssumption, IdleOK DEF Init, CrewInit, SuffixInv, CrewRows

LEMMA SuffixStep == FiniteInv /\ CrewTypes /\ SuffixInv /\ [Next]_vars => SuffixInv'
<1>. SUFFICES ASSUME FiniteInv, CrewTypes, SuffixInv, [Next]_vars PROVE SuffixInv'
  OBVIOUS
<1>1. CASE Quiet
  BY <1>1 DEF Quiet, SuffixInv
<1>2. ASSUME NEW c \in Caller, NEW text, SaveKey(c, text) PROVE SuffixInv'
  <2>1. PICK n, s, w :
           /\ n \in Nat /\ s \in Suffix \ used
           /\ used' = used \cup {s} /\ crew' = [crew EXCEPT ![c] = w]
           /\ w.pc = "set" /\ w.key = <<n, s>> /\ UNCHANGED src
    BY <1>2, SaveKeyIs DEF FiniteInv
  <2>2. crew'[c] = w /\ w.key[2] = s /\ \A d \in Caller : d # c => crew'[d] = crew[d]
    <3>1. w.key[2] = s
      BY <2>1
    <3>. QED  BY <2>1, <3>1, OneWorks
  <2>3. CrewRows' = CrewRows
    BY <2>1 DEF CrewRows
  <2>. QED  BY <2>1, <2>2, <2>3 DEF SuffixInv
<1>3. ASSUME NEW c \in Caller, SaveSet(c) PROVE SuffixInv'
  BY <1>3, SaveSetIs DEF SuffixInv
<1>. QED  BY <1>1, <1>2, <1>3, CrewSteps

LEMMA NumberInit == Init => NumberInv
BY IdleOK DEF Init, CrewInit, NumberInv

LEMMA NumberStep == FiniteInv /\ CrewTypes /\ NumberInv /\ [Next]_vars => NumberInv'
<1>. SUFFICES ASSUME FiniteInv, CrewTypes, NumberInv, [Next]_vars PROVE NumberInv'
  OBVIOUS
<1>1. CASE Quiet
  BY <1>1, CrewAssumption DEF Quiet, NumberInv
<1>2. ASSUME NEW c \in Caller, NEW text, SaveKey(c, text) PROVE NumberInv'
  <2>0. PICK o \in Object : o = ObjOf[c]
    BY CrewAssumption
  <2>1. PICK n, s, w :
           /\ n \in Nat /\ s \in Suffix \ used
           /\ n > (IF seqs[ObjOf[c]] = Unset THEN Highest ELSE seqs[ObjOf[c]])
           /\ seqs' = [seqs EXCEPT ![ObjOf[c]] = n]
           /\ crew' = [crew EXCEPT ![c] = w]
           /\ w.key = <<n, s>> /\ w.val.metadata = ObjOf[c] /\ UNCHANGED src
    BY <1>2, SaveKeyIs DEF FiniteInv
  <2>2. crew'[c] = w /\ w.key[1] = n /\ \A d \in Caller : d # c => crew'[d] = crew[d]
    <3>1. w.key[1] = n
      BY <2>1
    <3>. QED  BY <2>1, <3>1, OneWorks
  <2>3. seqs'[o] = n /\ n # Unset /\ \A p \in Object : p # o => seqs'[p] = seqs[p]
    BY <2>0, <2>1 DEF CrewTypes, Unset
  <2>4. \A p \in Object : seqs[p] = Unset \/ seqs[p] \in Nat
    BY DEF CrewTypes
  <2>5. ASSUME NEW d \in Caller, crew'[d].pc = "set"
        PROVE  /\ crew'[d].val.metadata = ObjOf[d]
               /\ seqs'[ObjOf[d]] # Unset /\ crew'[d].key[1] <= seqs'[ObjOf[d]]
    <3>1. CASE d = c
      BY <2>0, <2>1, <2>2, <2>3, <3>1
    <3>2. CASE d # c
      <4>1. /\ crew[d].pc = "set" /\ crew'[d] = crew[d] /\ ObjOf[d] \in Object
            /\ crew[d].val.metadata = ObjOf[d]
            /\ seqs[ObjOf[d]] # Unset /\ crew[d].key[1] <= seqs[ObjOf[d]]
        BY <2>2, <2>5, <3>2, CrewAssumption DEF NumberInv
      <4>2. CASE ObjOf[d] = o
        <5>1. crew[d].key[1] \in Nat
          BY <4>1 DEF CrewTypes, WorkOK
        <5>2. seqs[o] \in Nat /\ seqs[o] < n
          BY <2>0, <2>1, <2>4, <4>1, <4>2
        <5>3. crew[d].key[1] <= n
          BY <2>1, <4>1, <4>2, <5>1, <5>2
        <5>. QED  BY <2>3, <4>1, <4>2, <5>3
      <4>3. CASE ObjOf[d] # o
        BY <2>3, <4>1, <4>3
      <4>. QED  BY <4>2, <4>3
    <3>. QED  BY <3>1, <3>2
  <2>6. ASSUME NEW p \in Object, NEW r \in CrewRows',
               Parses(r[2]), seqs'[p] # Unset, src'[r].metadata = p
        PROVE  r[2][1] <= seqs'[p]
    <3>1. r \in CrewRows /\ src' = src
      BY <2>1 DEF CrewRows
    <3>2. CASE p # o
      BY <2>3, <2>6, <3>1, <3>2 DEF NumberInv
    <3>3. CASE p = o
      <4>1. r[2][1] \in Nat /\ (seqs[o] = Unset => r[2][1] <= Highest /\ Highest \in Nat)
        <5>1. r[2] \in keys(CrewNs)
          BY <3>1 DEF CrewRows, keys
        <5>. QED  BY <2>6, <5>1, HighestIs DEF FiniteInv
      <4>2. CASE seqs[o] = Unset
        BY <2>0, <2>1, <2>3, <3>3, <4>1, <4>2
      <4>3. CASE seqs[o] # Unset
        <5>1. r[2][1] <= seqs[o] /\ seqs[o] \in Nat
          BY <2>4, <2>6, <3>1, <3>3, <4>3 DEF NumberInv
        <5>. QED  BY <2>0, <2>1, <2>3, <3>3, <4>1, <4>3, <5>1
      <4>. QED  BY <4>2, <4>3
    <3>. QED  BY <3>2, <3>3
  <2>. QED  BY <2>5, <2>6 DEF NumberInv
<1>3. ASSUME NEW c \in Caller, SaveSet(c) PROVE NumberInv'
  <2>1. ASSUME NEW p \in Object, NEW r \in CrewRows',
               Parses(r[2]), seqs'[p] # Unset, src'[r].metadata = p
        PROVE  r[2][1] <= seqs'[p]
    BY <1>3, <2>1, SaveSetIs DEF NumberInv
  <2>. QED  BY <1>3, <2>1, SaveSetIs DEF NumberInv
<1>. QED  BY <1>1, <1>2, <1>3, CrewSteps

CrewInv == FiniteInv /\ CrewTypes /\ SuffixInv /\ NumberInv

LEMMA CrewInvariant == Spec => []CrewInv
<1>1. FileInv => PortShape
  BY DEF FileInv
<1>2. FiniteInv /\ CrewTypes /\ SuffixInv /\ NumberInv => CrewInv
  BY DEF CrewInv
<1>. QED
  BY <1>1, <1>2, FileInit, FileStep, FiniteInit, FiniteStep, CrewTypesInit, CrewTypesStep,
     SuffixInit, SuffixStep, NumberInit, NumberStep, PTL DEF Spec

\* Whatever objects and threads save, search, reset and restart at once, a stored
\* memory is neither overwritten nor lost: only a reset that has listed its key takes
\* it away (_next_key: a race costs ordering, never an entry).
THEOREM MemoriesAreKept == Spec => EntryKept
<1>. DEFINE Kept == \A r \in CrewRows :
                      \/ r \in DOMAIN src' /\ src'[r] = src[r]
                      \/ \E c \in Caller : crew[c].pc = "delete" /\ r[2] \in crew[c].ks
<1>1. CrewInv /\ [Next]_vars => Kept
  <2>. SUFFICES ASSUME CrewInv, [Next]_vars, NEW r \in CrewRows
                PROVE  \/ r \in DOMAIN src' /\ src'[r] = src[r]
                       \/ \E c \in Caller : crew[c].pc = "delete" /\ r[2] \in crew[c].ks
    OBVIOUS
  <2>0. r \in DOMAIN src /\ r[1] = CrewNs /\ r = <<r[1], r[2]>>
    BY DEF CrewRows, CrewInv, CrewTypes
  <2>1. CASE UNCHANGED src
    BY <2>0, <2>1
  <2>2. ASSUME NEW c \in Caller, SaveSet(c) PROVE r \in DOMAIN src' /\ src'[r] = src[r]
    <3>1. crew[c].pc = "set" /\ Len(crew[c].key) = 2
      BY <2>2 DEF SaveSet, CrewInv, CrewTypes, WorkOK
    <3>2. r # <<CrewNs, crew[c].key>>
      BY <2>0, <3>1 DEF CrewInv, SuffixInv, Parses
    <3>. QED  BY <2>0, <2>2, <3>2, SaveSetIs DEF CrewInv
  <2>3. ASSUME NEW c \in Caller, ResetDelete(c)
        PROVE  \/ r \in DOMAIN src' /\ src'[r] = src[r]
               \/ crew[c].pc = "delete" /\ r[2] \in crew[c].ks
    <3>1. /\ crew[c].pc = "delete" /\ crew[c].ks # {}
          /\ src' = Without(src, {<<CrewNs, Least(crew[c].ks)>>})
      BY <2>3 DEF ResetDelete, Becomes
    <3>2. Least(crew[c].ks) \in crew[c].ks
      BY <3>1, LeastIs DEF CrewInv, CrewTypes, WorkOK
    <3>. QED  BY <2>0, <3>1, <3>2 DEF Without
  <2>4. ASSUME NEW q \in {p \in DOMAIN Rows : p[1] # CrewNs}, Delete(q) \/ \E v : Write(q, v)
        PROVE  r \in DOMAIN src' /\ src'[r] = src[r]
    BY <2>0, <2>4 DEF Delete, Write, Becomes, Merge, Without
  <2>. QED  BY <2>1, <2>2, <2>3, <2>4, SourceSteps
<1>2. CrewInv /\ [Next]_vars => [Kept]_<<src, crew>>
  BY <1>1
<1>. QED  BY <1>2, CrewInvariant, PTL DEF Spec, EntryKept

\* A new key sorts after every stored memory of its object, and the first one of an
\* object, also of one that was started again, after all that is stored
\* (_next_key: "keys sort by insertion order").
THEOREM KeysKeepTheirOrder == Spec => KeysOrdered
<1>. DEFINE Ordered ==
       \A c \in Caller :
         crew[c].pc = "idle" /\ crew'[c].pc = "set" =>
           \A r \in CrewRows :
             /\ Parses(r[2])
             /\ seqs[ObjOf[c]] = Unset \/ src[r].metadata = ObjOf[c]
             => Below(r[2], crew'[c].key)
<1>1. CrewInv /\ [Next]_vars => Ordered
  <2>. SUFFICES ASSUME CrewInv, [Next]_vars, NEW c \in Caller, crew[c].pc = "idle",
                       crew'[c].pc = "set", NEW r \in CrewRows, Parses(r[2]),
                       seqs[ObjOf[c]] = Unset \/ src[r].metadata = ObjOf[c]
                PROVE  Below(r[2], crew'[c].key)
    OBVIOUS
  <2>0. CrewTypes /\ IsFiniteSet(DOMAIN src)
    BY DEF CrewInv, FiniteInv
  <2>1. ~ Quiet
    BY DEF Quiet
  <2>2. \A d \in Caller : ~ SaveSet(d)
    BY <2>0, SaveSetIs
  <2>3. PICK d \in Caller, text \in Text : SaveKey(d, text)
    BY <2>0, <2>1, <2>2, CrewSteps
  <2>4. PICK n, s, w :
           /\ n \in Nat /\ s \in Suffix \ used
           /\ n > (IF seqs[ObjOf[d]] = Unset THEN Highest ELSE seqs[ObjOf[d]])
           /\ crew' = [crew EXCEPT ![d] = w] /\ WorkOK(w)
           /\ w.pc = "set" /\ w.key = <<n, s>>
    BY <2>0, <2>3, SaveKeyIs, SMTT(60)
  <2>5. d = c /\ crew'[c] = w /\ w.key \in Seq(Nat) /\ Len(w.key) = 2 /\ w.key[1] = n
    <3>1. w.key[1] = n
      BY <2>4
    <3>2. d = c /\ crew'[c] = w
      BY <2>0, <2>4, OneWorks
    <3>. QED  BY <2>4, <3>1, <3>2 DEF WorkOK
  <2>6. r[2] \in Seq(Nat) /\ Len(r[2]) = 2 /\ r[2][1] \in Nat
    BY <2>0 DEF CrewRows, CrewTypes, Parses
  <2>7. r[2][1] < n
    <3>1. CASE seqs[ObjOf[c]] = Unset
      <4>1. r[2] \in keys(CrewNs)
        BY DEF CrewRows, keys
      <4>2. r[2][1] <= Highest /\ Highest \in Nat
        BY <2>0, <4>1, HighestIs
      <4>. QED  BY <2>4, <2>5, <2>6, <3>1, <4>2
    <3>2. CASE seqs[ObjOf[c]] # Unset
      <4>1. seqs[ObjOf[c]] \in Nat /\ ObjOf[c] \in Object
        BY <2>0, <3>2, CrewAssumption DEF CrewTypes
      <4>2. r[2][1] <= seqs[ObjOf[c]]
        BY <3>2, <4>1 DEF CrewInv, NumberInv
      <4>. QED  BY <2>4, <2>5, <2>6, <3>2, <4>1, <4>2
    <3>. QED  BY <3>1, <3>2
  <2>8. Parts(r[2], w.key, 0)
    BY <2>5, <2>6, <2>7 DEF Parts
  <2>. QED  BY <2>5, <2>6, <2>8, BelowParts
<1>2. CrewInv /\ [Next]_vars => [Ordered]_<<src, seqs, crew>>
  BY <1>1
<1>. QED  BY <1>2, CrewInvariant, PTL DEF Spec, KeysOrdered

-----------------------------------------------------------------------------
(* search() *)

SeenTypes == seen = [w \in Watcher |-> seen[w]]

\* What a memory holds, stored or about to be.
ValueInv ==
  /\ \A r \in CrewRows : src[r] # Null => src[r].value \in Text
  /\ \A c \in Caller : crew[c].pc = "set" => crew[c].val.value \in Text

\* A step that leaves the work of c alone, and that c's call may have seen.
Rest(c) ==
  /\ crew'[c] = crew[c]
  /\ \/ UNCHANGED src /\ seen'[c] = seen[c]
     \/ seen'[c] = IF seen[c] = {} THEN {} ELSE seen[c] \cup {src'}

LEMMA SeenInit == Init => SeenTypes
BY DEF Init, SeenTypes

LEMMA SeenStep == SeenTypes /\ [Next]_vars => SeenTypes'
<1>. SUFFICES ASSUME SeenTypes, [Next]_vars PROVE SeenTypes'
  OBVIOUS
<1>1. CASE UNCHANGED seen
  BY <1>1 DEF SeenTypes
<1>2. CASE \E w : Watch(w) \/ Unwatch(w)
  BY <1>2 DEF Watch, Unwatch, SeenTypes
<1>3. CASE \E new : Becomes(new)
  BY <1>3 DEF Becomes, SeenTypes
<1>4. CASE PortNext
  BY <1>1, <1>2, <1>4
     DEF PortNext, copy_store, dump_store, Begin, NextNs, Chunk, Contains, Emit, EndOfEntries,
         Return, Raise, Crash, Halt, load_store, LoadFrame, LoadEnd, LoadReturn, Step, store
<1>5. CASE \E o \in Object : Restart(o)
  BY <1>5 DEF Restart, SeenTypes
<1>6. CASE CrewNext
  BY <1>1, <1>2, <1>3, <1>5, <1>6
     DEF CrewNext, SaveKey, SaveSet, search, reset, List, SearchGet, SearchRank, ResetDelete,
         Done, store
<1>. QED  BY <1>1, <1>3, <1>4, <1>6 DEF Next, Write, Delete, vars, store

LEMMA ValueInit == Init => ValueInv
BY RowsAssumption, IdleOK DEF Init, CrewInit, ValueInv, CrewRows

LEMMA ValueStep == FiniteInv /\ CrewTypes /\ ValueInv /\ [Next]_vars => ValueInv'
<1>. SUFFICES ASSUME FiniteInv, CrewTypes, ValueInv, [Next]_vars PROVE ValueInv'
  OBVIOUS
<1>1. CASE Quiet
  BY <1>1 DEF Quiet, ValueInv
<1>2. ASSUME NEW c \in Caller, NEW text \in Text, SaveKey(c, text) PROVE ValueInv'
  <2>1. PICK n, s, w :
           crew' = [crew EXCEPT ![c] = w] /\ w.val.value = text /\ UNCHANGED src
    BY <1>2, SaveKeyIs DEF FiniteInv
  <2>2. crew'[c] = w /\ \A d \in Caller : d # c => crew'[d] = crew[d]
    BY <2>1, OneWorks
  <2>3. CrewRows' = CrewRows
    BY <2>1 DEF CrewRows
  <2>. QED  BY <2>1, <2>2, <2>3 DEF ValueInv
<1>3. ASSUME NEW c \in Caller, SaveSet(c) PROVE ValueInv'
  BY <1>3, SaveSetIs DEF ValueInv
<1>. QED  BY <1>1, <1>2, <1>3, CrewSteps

\* A memory that is stored before and after a step has not changed.
LEMMA MemoriesStay ==
  ASSUME CrewInv, [Next]_vars, NEW r \in CrewRows, r \in DOMAIN src'
  PROVE  src'[r] = src[r]
<1>0. r \in DOMAIN src /\ r[1] = CrewNs /\ r = <<r[1], r[2]>>
  BY DEF CrewRows, CrewInv, CrewTypes
<1>1. CASE UNCHANGED src
  BY <1>1
<1>2. ASSUME NEW c \in Caller, SaveSet(c) PROVE src'[r] = src[r]
  <2>1. crew[c].pc = "set" /\ Len(crew[c].key) = 2
    BY <1>2 DEF SaveSet, CrewInv, CrewTypes, WorkOK
  <2>2. r # <<CrewNs, crew[c].key>>
    BY <1>0, <2>1 DEF CrewInv, SuffixInv, Parses
  <2>. QED  BY <1>0, <1>2, <2>2, SaveSetIs DEF CrewInv
<1>3. ASSUME NEW c \in Caller, ResetDelete(c) PROVE src'[r] = src[r]
  BY <1>3 DEF ResetDelete, Becomes, Without
<1>4. ASSUME NEW q \in {p \in DOMAIN Rows : p[1] # CrewNs}, Delete(q) \/ \E v : Write(q, v)
      PROVE  src'[r] = src[r]
  BY <1>0, <1>4 DEF Delete, Write, Becomes, Merge, Without
<1>. QED  BY <1>1, <1>2, <1>3, <1>4, SourceSteps

\* The steps that matter to a search of c.
LEMMA SearchSteps ==
  ASSUME CrewTypes, SeenTypes, [Next]_vars, NEW c \in Caller, crew'[c].pc \in {"get", "found"}
  PROVE  \/ Rest(c)
         \/ \E min \in Thresholds : search(c, min)
         \/ SearchGet(c) \/ SearchRank(c)
<1>0. c \in Watcher /\ c # "port"
  BY CrewAssumption, RowsAssumption
<1>1. ASSUME UNCHANGED crew, UNCHANGED src, UNCHANGED seen \/ Watch("port") \/ Unwatch("port")
      PROVE  Rest(c)
  BY <1>0, <1>1 DEF Rest, SeenTypes, Watch, Unwatch
<1>2. ASSUME NEW new, Becomes(new), crew'[c] = crew[c] PROVE Rest(c)
  BY <1>0, <1>2 DEF Rest, Becomes
<1>3. CASE PortNext /\ UNCHANGED crewvars
  <2>1. UNCHANGED seen \/ Watch("port") \/ Unwatch("port")
    BY <1>3
       DEF PortNext, copy_store, dump_store, Begin, NextNs, Chunk, Contains, Emit, EndOfEntries,
           Return, Raise, Crash, Halt, load_store, LoadFrame, LoadEnd, LoadReturn, Step, store
  <2>. QED  BY <1>1, <1>3, <2>1, PortKeepsSource DEF crewvars
<1>4. ASSUME NEW r, Delete(r) \/ \E v : Write(r, v), UNCHANGED crewvars PROVE Rest(c)
  BY <1>2, <1>4 DEF Delete, Write, crewvars
<1>5. ASSUME NEW d \in Caller, d # c, NEW w, crew' = [crew EXCEPT ![d] = w],
             \/ UNCHANGED src /\ (UNCHANGED seen \/ Watch(d) \/ Unwatch(d))
             \/ \E new : Becomes(new)
      PROVE  Rest(c)
  <2>1. crew'[c] = crew[c]
    BY <1>5, OneWorks
  <2>2. CASE UNCHANGED src /\ (UNCHANGED seen \/ Watch(d) \/ Unwatch(d))
    BY <1>0, <1>5, <2>1, <2>2 DEF Rest, SeenTypes, Watch, Unwatch
  <2>. QED  BY <1>2, <1>5, <2>1, <2>2
<1>6. ASSUME NEW d \in Caller, d # c,
             \/ \E text : SaveKey(d, text)
             \/ \E pc, min : List(d, pc, min)
             \/ SaveSet(d) \/ SearchGet(d) \/ SearchRank(d) \/ ResetDelete(d) \/ Done(d)
      PROVE  Rest(c)
  <2>1. CASE \E text : SaveKey(d, text)
    BY <1>5, <1>6, <2>1 DEF SaveKey
  <2>2. CASE \E pc, min : List(d, pc, min)
    BY <1>5, <1>6, <2>2 DEF List
  <2>3. CASE SaveSet(d) \/ Done(d)
    BY <1>5, <1>6, <2>3 DEF SaveSet, Done
  <2>4. CASE SearchGet(d)
    <3>1. PICK w : crew' = [crew EXCEPT ![d] = w] /\ UNCHANGED store
      BY <2>4, SearchGetIs, ZenonT(60)
    <3>. QED  BY <1>5, <1>6, <3>1 DEF store
  <2>5. CASE SearchRank(d)
    <3>1. PICK w : crew' = [crew EXCEPT ![d] = w] /\ UNCHANGED store
      BY <2>5, SearchRankIs
    <3>. QED  BY <1>5, <1>6, <3>1 DEF store
  <2>6. CASE ResetDelete(d)
    <3>1. PICK w : crew' = [crew EXCEPT ![d] = w]
      BY <2>6, ResetDeleteIs
    <3>. QED  BY <1>5, <1>6, <2>6, <3>1 DEF ResetDelete
  <2>. QED  BY <1>6, <2>1, <2>2, <2>3, <2>4, <2>5, <2>6
<1>7. ASSUME \/ \E text : SaveKey(c, text)
             \/ SaveSet(c) \/ reset(c) \/ ResetDelete(c) \/ Done(c)
      PROVE  FALSE
  <2>1. CASE \E text : SaveKey(c, text)
    <3>1. PICK w : crew' = [crew EXCEPT ![c] = w] /\ w.pc = "set"
      <4>1. PICK text, s : crew' = [crew EXCEPT ![c] =
                [Idle EXCEPT !.pc = "set",
                   !.key = <<(IF seqs[ObjOf[c]] = Unset THEN Highest ELSE seqs[ObjOf[c]]) + 1, s>>,
                   !.val = [value |-> text, metadata |-> ObjOf[c]]]]
        BY <2>1 DEF SaveKey
      <4>2. PICK k : k = <<(IF seqs[ObjOf[c]] = Unset THEN Highest ELSE seqs[ObjOf[c]]) + 1, s>>
        OBVIOUS
      <4>3. PICK v : v = [value |-> text, metadata |-> ObjOf[c]]
        OBVIOUS
      <4>4. PICK w : w = [Idle EXCEPT !.pc = "set", !.key = k, !.val = v]
        OBVIOUS
      <4>5. w.pc = "set"
        BY <4>4 DEF Idle
      <4>. QED  BY <4>1, <4>2, <4>3, <4>4, <4>5
    <3>. QED  BY <3>1, OneWorks
  <2>2. CASE SaveSet(c) \/ Done(c)
    BY <2>2, OneWorks, IdleOK DEF SaveSet, Done
  <2>3. CASE reset(c)
    <3>1. PICK w : w = [Idle EXCEPT !.pc = "delete", !.min = 0, !.ks = keys(CrewNs)]
      OBVIOUS
    <3>2. w.pc = "delete"
      BY <3>1 DEF Idle
    <3>3. crew' = [crew EXCEPT ![c] = w]
      BY <2>3, <3>1 DEF reset, List
    <3>. QED  BY <3>2, <3>3, OneWorks
  <2>4. CASE ResetDelete(c)
    BY <2>4, ResetDeleteIs, OneWorks, ZenonT(60)
  <2>. QED  BY <1>7, <2>1, <2>2, <2>3, <2>4
<1>8. ASSUME NEW o \in Object, Restart(o) PROVE Rest(c)
  <2>1. ObjOf[c] # o
    BY <1>8, IdleOK DEF Restart
  <2>. QED  BY <1>0, <1>8, <2>1 DEF Restart, Rest
<1>9. CASE CrewNext
  BY <1>6, <1>7, <1>8, <1>9 DEF CrewNext, search, reset
<1>10. CASE UNCHANGED vars
  BY <1>1, <1>10 DEF vars, store, crewvars
<1>. QED  BY <1>3, <1>4, <1>9, <1>10 DEF Next

SearchOK(c) ==
  /\ src \in seen[c]
  /\ crew[c].min \in Nat
  /\ IsFiniteSet(DOMAIN crew[c].got) /\ DOMAIN crew[c].got \subseteq Seq(Nat)
  /\ \A k \in DOMAIN crew[c].got :
       Had(c, <<CrewNs, k>>, crew[c].got[k]) /\ crew[c].got[k].value \in Text

\* A memory that has been there throughout is still to be read, has been read, or is
\* no answer.
Covered(c) ==
  \A r \in Always(c) \cap CrewRows :
    \/ r[2] \in crew[c].ks
    \/ r[2] \in DOMAIN crew[c].got /\ crew[c].got[r[2]] = src[r]
    \/ src[r] = Null
    \/ Score[src[r].value] < crew[c].min

Ranked(c) ==
  LET g == crew[c].got IN
  /\ Cardinality(DOMAIN g) <= Limit
  /\ \A r \in Always(c) \cap CrewRows :
       \/ r[2] \in DOMAIN g
       \/ src[r] = Null
       \/ Score[src[r].value] < crew[c].min
       \/ /\ Cardinality(DOMAIN g) = Limit
          /\ \A k \in DOMAIN g : Above(Merge(g, [x \in {r[2]} |-> src[r]]), k, r[2])

SearchInv ==
  \A c \in Caller :
    /\ crew[c].pc \in {"get", "found"} => SearchOK(c)
    /\ crew[c].pc = "get" => Covered(c)
    /\ crew[c].pc = "found" => Ranked(c)

LEMMA SearchInit == Init => SearchInv
BY IdleOK DEF Init, CrewInit, SearchInv

\* A search that is at rest keeps what it has, and no memory appears to it that was
\* there throughout.
LEMMA SearchRests ==
  ASSUME CrewInv, [Next]_vars, NEW c \in Caller, Rest(c), SearchOK(c)
  PROVE  /\ SearchOK(c)' /\ crew'[c] = crew[c]
         /\ \A r \in Always(c)' \cap CrewRows' : r \in Always(c) \cap CrewRows /\ src'[r] = src[r]
<1>1. /\ crew'[c] = crew[c] /\ src' \in seen'[c] /\ src \in seen'[c]
      /\ \A s \in seen[c] : s \in seen'[c]
  BY DEF Rest, SearchOK
<1>2. ASSUME NEW r \in Always(c)' \cap CrewRows'
      PROVE  r \in Always(c) \cap CrewRows /\ src'[r] = src[r]
  <2>1. r \in DOMAIN src' /\ r \in DOMAIN src /\ r[1] = CrewNs /\ \A s \in seen[c] : r \in DOMAIN s
    BY <1>1, <1>2 DEF Always, CrewRows
  <2>2. r \in CrewRows /\ r \in Always(c)
    BY <2>1 DEF CrewRows, Always
  <2>. QED  BY <2>1, <2>2, MemoriesStay
<1>3. \A k, v : Had(c, <<CrewNs, k>>, v) => Had(c, <<CrewNs, k>>, v)'
  BY <1>1 DEF Had
<1>4. SearchOK(c)'
  BY <1>1, <1>3 DEF SearchOK
<1>. QED  BY <1>1, <1>2, <1>4

\* By score, then by key, is a linear order.
LEMMA AboveLinear ==
  ASSUME NEW g, IsFiniteSet(DOMAIN g), DOMAIN g \subseteq Seq(Nat),
         \A k \in DOMAIN g : g[k].value \in Text
  PROVE  LET D == DOMAIN g IN Linear(D, {p \in D \X D : Above(g, p[1], p[2])})
<1>. DEFINE D == DOMAIN g
            R == {p \in D \X D : Above(g, p[1], p[2])}
            v == [k \in D |-> Score[g[k].value]]
<1>1. \A a, b \in D : <<a, b>> \in R <=> Above(g, a, b)
  OBVIOUS
<1>2. \A k \in D : v[k] \in Nat /\ v[k] = Score[g[k].value]
  BY CrewAssumption
<1>. HIDE DEF v
<1>3. \A a, b \in D : <<a, b>> \in R <=> v[a] > v[b] \/ (v[a] = v[b] /\ Below(b, a))
  BY <1>1, <1>2 DEF Above
<1>. HIDE DEF R
<1>4. \A a \in D : <<a, a>> \notin R
  BY <1>2, <1>3, BelowIrreflexive
<1>5. ASSUME NEW a \in D, NEW b \in D, NEW c \in D, <<a, b>> \in R, <<b, c>> \in R
      PROVE  <<a, c>> \in R
  <2>1. a \in Seq(Nat) /\ b \in Seq(Nat) /\ c \in Seq(Nat)
    OBVIOUS
  <2>2. Below(c, b) /\ Below(b, a) => Below(c, a)
    BY <2>1, BelowTransitive
  <2>3. v[a] \in Nat /\ v[b] \in Nat /\ v[c] \in Nat
    BY <1>2
  <2>4. v[a] > v[b] \/ (v[a] = v[b] /\ Below(b, a))
    BY <1>3, <1>5
  <2>5. v[b] > v[c] \/ (v[b] = v[c] /\ Below(c, b))
    BY <1>3, <1>5
  <2>6. v[a] > v[c] \/ (v[a] = v[c] /\ Below(c, a))
    BY <2>2, <2>3, <2>4, <2>5
  <2>. QED  BY <1>3, <2>6
<1>6. ASSUME NEW a \in D, NEW b \in D, a # b PROVE <<a, b>> \in R \/ <<b, a>> \in R
  <2>1. a \in Seq(Nat) /\ b \in Seq(Nat)
    OBVIOUS
  <2>2. Below(a, b) \/ Below(b, a)
    BY <1>6, <2>1, BelowTotal
  <2>3. v[a] \in Nat /\ v[b] \in Nat
    BY <1>2
  <2>. QED  BY <1>3, <2>2, <2>3
<1>7. Linear(D, R)
  BY <1>4, <1>5, <1>6 DEF Linear
<1>. QED  BY <1>7 DEF R

\* The entries that search() returns, of those it has found.
LEMMA TopIs ==
  ASSUME NEW g, IsFiniteSet(DOMAIN g), DOMAIN g \subseteq Seq(Nat),
         \A k \in DOMAIN g : g[k].value \in Text
  PROVE  /\ Top(g) \subseteq DOMAIN g /\ IsFiniteSet(Top(g)) /\ Cardinality(Top(g)) <= Limit
         /\ \A k \in DOMAIN g \ Top(g) :
              Cardinality(Top(g)) = Limit /\ \A t \in Top(g) : Above(g, t, k)
<1>. DEFINE D == DOMAIN g
            R == {p \in D \X D : Above(g, p[1], p[2])}
            T == {k \in D : Cardinality(Before(D, R, k)) < Limit}
<1>1. Linear(D, R)
  BY AboveLinear
<1>2. \A k \in D : Before(D, R, k) = {l \in DOMAIN g : Above(g, l, k)}
  BY DEF Before
<1>3. T = Top(g)
  BY <1>2 DEF Top
<1>4. \A a, b \in D : <<a, b>> \in R => Above(g, a, b)
  OBVIOUS
<1>. HIDE DEF R
<1>5. /\ IsFiniteSet(T) /\ Cardinality(T) <= Limit
      /\ \A k \in D \ T : Cardinality(T) = Limit /\ \A t \in T : <<t, k>> \in R
  BY <1>1, CrewAssumption, FirstRanks
<1>6. T \subseteq D
  OBVIOUS
<1>. HIDE DEF T
<1>. QED  BY <1>3, <1>4, <1>5, <1>6

SearchAll == CrewInv /\ SeenTypes /\ ValueInv /\ SearchInv

LEMMA SearchStep == SearchAll /\ [Next]_vars => SearchInv'
<1>. SUFFICES ASSUME SearchAll, [Next]_vars, NEW c \in Caller,
                     crew'[c].pc \in {"get", "found"}
              PROVE  /\ SearchOK(c)'
                     /\ crew'[c].pc = "get" => Covered(c)'
                     /\ crew'[c].pc = "found" => Ranked(c)'
  BY DEF SearchInv
<1>0. CrewInv /\ CrewTypes /\ FiniteInv /\ SeenTypes /\ ValueInv /\ SearchInv
  BY DEF SearchAll, CrewInv
<1>1. CASE Rest(c)
  <2>1. crew'[c] = crew[c]
    BY <1>1 DEF Rest
  <2>2. SearchOK(c) /\ (crew[c].pc = "get" => Covered(c)) /\ (crew[c].pc = "found" => Ranked(c))
    BY <1>0, <2>1 DEF SearchInv
  <2>3. /\ SearchOK(c)'
        /\ \A r \in Always(c)' \cap CrewRows' : r \in Always(c) \cap CrewRows /\ src'[r] = src[r]
    BY <1>0, <1>1, <2>2, SearchRests
  <2>4. crew[c].pc = "get" => Covered(c)'
    BY <2>1, <2>2, <2>3 DEF Covered
  <2>5. crew[c].pc = "found" => Ranked(c)'
    BY <2>1, <2>2, <2>3 DEF Ranked
  <2>. QED  BY <2>1, <2>3, <2>4, <2>5
<1>2. ASSUME NEW min \in Thresholds, search(c, min)
      PROVE  SearchOK(c)' /\ Covered(c)' /\ crew'[c].pc = "get"
  <2>1. PICK w : w = [Idle EXCEPT !.pc = "get", !.min = min, !.ks = keys(CrewNs)]
    OBVIOUS
  <2>2. w.pc = "get" /\ w.ks = keys(CrewNs) /\ w.min = min /\ w.got = Absent
    BY <2>1 DEF Idle
  <2>3. crew' = [crew EXCEPT ![c] = w] /\ src' = src /\ Watch(c)
    BY <1>2, <2>1 DEF search, List
  <2>4. crew'[c] = w /\ seen'[c] = {src} /\ CrewRows' = CrewRows
    BY <1>0, <2>3, OneWorks, CrewAssumption DEF Watch, SeenTypes, CrewRows
  <2>5. SearchOK(c)'
    <3>1. DOMAIN Absent = {} /\ IsFiniteSet(DOMAIN Absent)
      BY FS_EmptySet DEF Absent
    <3>. QED  BY <2>2, <2>3, <2>4, <3>1, CrewAssumption DEF SearchOK
  <2>6. \A r \in CrewRows : r[2] \in keys(CrewNs)
    BY DEF CrewRows, keys
  <2>. QED  BY <2>2, <2>4, <2>5, <2>6 DEF Covered
<1>3. CASE SearchGet(c)
  <2>. DEFINE k     == Least(crew[c].ks)
              q     == <<CrewNs, k>>
              found == q \in DOMAIN src /\ src[q] # Null
              takes == found /\ Score[src[q].value] >= crew[c].min
              g     == crew[c].got
  <2>1. PICK w :
          /\ crew' = [crew EXCEPT ![c] = w] /\ w.pc = "get" /\ w.min = crew[c].min
          /\ w.ks = crew[c].ks \ {k} /\ crew[c].pc = "get"
          /\ w.got = IF takes THEN Merge(g, [x \in {k} |-> src[q]]) ELSE g
          /\ UNCHANGED store /\ crew[c].ks # {}
    BY <1>0, <1>3, SearchGetIs
  <2>2. crew'[c] = w /\ src' = src /\ seen' = seen
    BY <1>0, <2>1, OneWorks DEF store
  <2>3. SearchOK(c) /\ Covered(c)
    BY <1>0, <2>1 DEF SearchInv
  <2>4. k \in Seq(Nat)
    BY <1>0, <2>1, LeastIs DEF CrewTypes, WorkOK
  <2>5. found => src[q].value \in Text
    BY <1>0 DEF ValueInv, CrewRows
  <2>6. Had(c, q, src[q]) \/ ~ found
    BY <2>3 DEF SearchOK, Had
  <2>. HIDE DEF k
  <2>7. CASE takes
    <3>1. PICK v : v = src[q]
      OBVIOUS
    <3>2. /\ DOMAIN w.got = DOMAIN g \cup {k} /\ w.got[k] = v
          /\ \A l \in DOMAIN g : l # k => w.got[l] = g[l]
      BY <2>1, <2>7, <3>1 DEF Merge
    <3>3. IsFiniteSet(DOMAIN w.got) /\ DOMAIN w.got \subseteq Seq(Nat)
      BY <2>3, <2>4, <3>2, FS_AddElement, ZenonT(60) DEF SearchOK
    <3>4. ASSUME NEW l \in DOMAIN w.got
          PROVE  Had(c, <<CrewNs, l>>, w.got[l]) /\ w.got[l].value \in Text
      <4>1. CASE l = k
        BY <2>5, <2>6, <2>7, <3>1, <3>2, <4>1
      <4>2. CASE l # k
        BY <2>3, <3>2, <3>4, <4>2 DEF SearchOK
      <4>. QED  BY <4>1, <4>2
    <3>5. SearchOK(c)'
      BY <2>1, <2>2, <2>3, <3>3, <3>4 DEF SearchOK, Had
    <3>6. ASSUME NEW r \in Always(c) \cap CrewRows
          PROVE  \/ r[2] \in w.ks
                 \/ r[2] \in DOMAIN w.got /\ w.got[r[2]] = src[r]
                 \/ src[r] = Null
                 \/ Score[src[r].value] < w.min
      <4>1. r = <<CrewNs, r[2]>>
        BY <1>0, <3>6 DEF CrewRows, CrewTypes
      <4>2. CASE r[2] = k
        BY <3>1, <3>2, <4>1, <4>2
      <4>3. CASE r[2] # k
        BY <2>1, <2>3, <3>2, <3>6, <4>3 DEF Covered
      <4>. QED  BY <4>2, <4>3
    <3>7. Always(c)' = Always(c) /\ CrewRows' = CrewRows
      BY <2>2 DEF Always, CrewRows
    <3>. QED  BY <2>1, <2>2, <3>5, <3>6, <3>7 DEF Covered
  <2>8. CASE ~ takes
    <3>1. w.got = g
      BY <2>1, <2>8
    <3>2. SearchOK(c)'
      BY <2>1, <2>2, <2>3, <3>1 DEF SearchOK, Had
    <3>3. ASSUME NEW r \in Always(c) \cap CrewRows
          PROVE  \/ r[2] \in w.ks
                 \/ r[2] \in DOMAIN w.got /\ w.got[r[2]] = src[r]
                 \/ src[r] = Null
                 \/ Score[src[r].value] < w.min
      <4>1. r = <<CrewNs, r[2]>> /\ r \in DOMAIN src
        BY <1>0, <3>3 DEF CrewRows, CrewTypes
      <4>2. CASE r[2] = k
        <5>1. src[r] = Null \/ (src[r].value \in Text /\ ~ (Score[src[r].value] >= crew[c].min))
          BY <2>5, <2>8, <4>1, <4>2
        <5>2. CASE src[r].value \in Text /\ ~ (Score[src[r].value] >= crew[c].min)
          <6>1. Score[src[r].value] \in Nat /\ crew[c].min \in Nat
            BY <2>3, <5>2, CrewAssumption DEF SearchOK
          <6>. QED  BY <2>1, <5>2, <6>1
        <5>. QED  BY <5>1, <5>2
      <4>3. CASE r[2] # k
        BY <2>1, <2>3, <3>1, <3>3, <4>3 DEF Covered
      <4>. QED  BY <4>2, <4>3
    <3>4. Always(c)' = Always(c) /\ CrewRows' = CrewRows
      BY <2>2 DEF Always, CrewRows
    <3>. QED  BY <2>1, <2>2, <3>2, <3>3, <3>4 DEF Covered
  <2>. QED  BY <2>7, <2>8
<1>4. CASE SearchRank(c)
  <2>. DEFINE g == crew[c].got
              T == Top(g)
  <2>1. PICK w : /\ crew' = [crew EXCEPT ![c] = w] /\ w.pc = "found" /\ w.min = crew[c].min
                 /\ w.got = Only(g, T) /\ crew[c].pc = "get" /\ crew[c].ks = {}
                 /\ UNCHANGED store
    BY <1>0, <1>4, SearchRankIs
  <2>2. crew'[c] = w /\ src' = src /\ seen' = seen
    BY <1>0, <2>1, OneWorks DEF store
  <2>3. SearchOK(c) /\ Covered(c)
    BY <1>0, <2>1 DEF SearchInv
  <2>4. /\ T \subseteq DOMAIN g /\ IsFiniteSet(T) /\ Cardinality(T) <= Limit
        /\ \A k \in DOMAIN g \ T : Cardinality(T) = Limit /\ \A t \in T : Above(g, t, k)
    BY <2>3, TopIs DEF SearchOK
  <2>. HIDE DEF T
  <2>5. DOMAIN w.got = T /\ \A k \in T : w.got[k] = g[k]
    BY <2>1, <2>4 DEF Only
  <2>6. SearchOK(c)'
    BY <2>1, <2>2, <2>3, <2>4, <2>5 DEF SearchOK, Had
  <2>7. ASSUME NEW r \in Always(c) \cap CrewRows
        PROVE  \/ r[2] \in T
               \/ src[r] = Null
               \/ Score[src[r].value] < w.min
               \/ /\ Cardinality(T) = Limit
                  /\ \A k \in T : Above(Merge(w.got, [x \in {r[2]} |-> src[r]]), k, r[2])
    <3>1. SUFFICES ASSUME r[2] \in DOMAIN g, g[r[2]] = src[r], r[2] \notin T
                   PROVE  /\ Cardinality(T) = Limit
                          /\ \A k \in T : Above(Merge(w.got, [x \in {r[2]} |-> src[r]]), k, r[2])
      BY <2>1, <2>3 DEF Covered
    <3>2. Cardinality(T) = Limit /\ \A t \in T : Above(g, t, r[2])
      BY <2>4, <3>1
    <3>3. PICK h : h = Merge(w.got, [x \in {r[2]} |-> src[r]])
      OBVIOUS
    <3>4. h[r[2]] = g[r[2]] /\ \A k \in T : h[k] = g[k]
      BY <2>5, <3>1, <3>3 DEF Merge
    <3>5. \A k \in T : Above(h, k, r[2])
      BY <3>2, <3>4 DEF Above
    <3>. QED  BY <3>2, <3>3, <3>5
  <2>8. Always(c)' = Always(c) /\ CrewRows' = CrewRows
    BY <2>2 DEF Always, CrewRows
  <2>9. Ranked(c)'
    BY <2>1, <2>2, <2>4, <2>5, <2>7, <2>8 DEF Ranked
  <2>. QED  BY <2>1, <2>2, <2>6, <2>9
<1>. QED  BY <1>0, <1>1, <1>2, <1>3, <1>4, SearchSteps

\* What search() returns was stored while it ran; a memory that was there throughout
\* and scores high enough is missing only when Limit others rank above it, whoever
\* saves, resets or restarts meanwhile (crewai.py: search).
THEOREM SearchesAreFaithful == Spec => []SearchFaithful
<1>1. CrewInv => FiniteInv /\ CrewTypes
  BY DEF CrewInv
<1>2. CrewInv /\ SeenTypes /\ ValueInv /\ SearchInv => SearchAll
  BY DEF SearchAll
<1>3. SearchInv => SearchFaithful
  <2>. SUFFICES ASSUME SearchInv, NEW c \in Caller, crew[c].pc = "found"
                PROVE  LET g == crew[c].got IN
                       /\ Cardinality(DOMAIN g) <= Limit
                       /\ \A k \in DOMAIN g : Had(c, <<CrewNs, k>>, g[k])
                       /\ \A r \in Always(c) \cap CrewRows :
                            \/ r[2] \in DOMAIN g
                            \/ src[r] = Null
                            \/ Score[src[r].value] < crew[c].min
                            \/ /\ Cardinality(DOMAIN g) = Limit
                               /\ \A k \in DOMAIN g :
                                    Above(Merge(g, [x \in {r[2]} |-> src[r]]), k, r[2])
    BY DEF SearchFaithful
  <2>1. SearchOK(c) /\ Ranked(c)
    BY DEF SearchInv
  <2>. QED  BY <2>1 DEF SearchOK, Ranked
<1>. QED
  BY <1>1, <1>2, <1>3, CrewInvariant, SeenInit, SeenStep, ValueInit, ValueStep,
     SearchInit, SearchStep, PTL DEF Spec

-----------------------------------------------------------------------------
(* The index range of a prefix *)

LEMMA SeqWiden ==
  ASSUME NEW S, NEW T, S \subseteq T, NEW s \in Seq(S)
  PROVE  s \in Seq(T) /\ Len(s) \in Nat /\ \A j \in 1 .. Len(s) : s[j] \in S
OBVIOUS

LEMMA PointStrings ==
  ASSUME NEW s \in Seq(Point)
  PROVE  s \in Seq(Nat) /\ Len(s) \in Nat /\ \A j \in 1 .. Len(s) : s[j] \in Point /\ s[j] \in Nat
<1>1. Point \subseteq Nat
  BY PointAssumption DEF Point
<1>. HIDE DEF Point
<1>. QED  BY <1>1, SeqWiden

\* Between a code point and the next one there is no other.
LEMMA NextPointIs ==
  ASSUME NEW cp \in Point, NEW q \in Point
  PROVE  NextPoint(cp) \in Nat /\ cp < NextPoint(cp) /\ (q < NextPoint(cp) <=> q <= cp)
<1>. DEFINE Q(m) == \A x \in Surrogates : x <= m
<1>0. cp \in Nat /\ q \in Nat /\ cp \notin Surrogates /\ q \notin Surrogates
  BY PointAssumption DEF Point
<1>1. CASE cp + 1 \notin Surrogates
  BY <1>0, <1>1 DEF NextPoint
<1>2. CASE cp + 1 \in Surrogates
  <2>1. PICK m \in Surrogates : Q(m)
    BY <1>2, PointAssumption, GreatestOf
  <2>2. NextPoint(cp) = (CHOOSE n \in Surrogates : Q(n)) + 1
    BY <1>2 DEF NextPoint
  <2>. HIDE DEF Q
  <2>3. PICK top : top \in Surrogates /\ Q(top) /\ NextPoint(cp) = top + 1
    BY <2>1, <2>2
  <2>4. top \in Nat /\ cp + 1 <= top
    BY <1>2, <2>3, PointAssumption DEF Q
  <2>5. cp + 1 .. top \subseteq Surrogates
    BY <1>2, <2>3, PointAssumption
  <2>6. ~ (q > cp /\ q <= top)
    BY <1>0, <2>4, <2>5
  <2>. QED  BY <1>0, <2>3, <2>4, <2>6
<1>. QED  BY <1>1, <1>2

LEMMA StartsWithIs ==
  ASSUME NEW s \in Seq(Nat), NEW p \in Seq(Nat)
  PROVE  StartsWith(s, p) <=> Len(p) <= Len(s) /\ \A i \in 1 .. Len(p) : s[i] = p[i]
<1>1. Len(p) \in Nat /\ Len(s) \in Nat /\ SubSeq(p, 1, Len(p)) = p
  BY SubSeqFull
<1>2. Len(p) <= Len(s) => (SubSeq(s, 1, Len(p)) = SubSeq(p, 1, Len(p)) <=> \A i \in 1 .. Len(p) : s[i] = p[i])
  BY <1>1, Prefixed
<1>. QED  BY <1>1, <1>2 DEF StartsWith

\* prefix_upper_bound: the string that ends where the prefix can be bumped, with the
\* next code point there.
LEMMA UpperBoundIs ==
  ASSUME NEW p \in Seq(Point), Bumpable(p) # {}
  PROVE  \E i \in 1 .. Len(p), b \in Nat, u \in Seq(Nat) :
           /\ u = UpperBound(p) /\ Len(u) = i /\ u[i] = b
           /\ \A j \in 1 .. i - 1 : u[j] = p[j]
           /\ p[i] < b /\ \A q \in Point : q < b => q <= p[i]
           /\ \A j \in i + 1 .. Len(p), q \in Point : q <= p[j]
<1>. DEFINE Q(m) == \A k \in Bumpable(p) : k <= m
            i == LastBumpable(p)
            b == NextPoint(p[i])
            u == UpperBound(p)
            v == SubSeq(p, 1, i - 1)
<1>0. /\ Len(p) \in Nat /\ DOMAIN p = 1 .. Len(p) /\ \A j \in 1 .. Len(p) : p[j] \in Point
      /\ Point \subseteq Nat
  BY PointAssumption DEF Point
<1>1. Bumpable(p) \in SUBSET (1 .. Len(p)) /\ Bumpable(p) \in SUBSET Nat
  BY <1>0 DEF Bumpable
<1>2. IsFiniteSet(Bumpable(p))
  <2>1. IsFiniteSet(1 .. Len(p))
    BY <1>0, FS_Interval
  <2>. QED  BY <1>1, <2>1, FS_Subset
<1>3. PICK m \in Bumpable(p) : Q(m)
  BY <1>1, <1>2, GreatestOf
<1>4. i = CHOOSE n \in Bumpable(p) : Q(n)
  BY DEF LastBumpable
<1>5. i \in Bumpable(p) /\ Q(i)
  <2>. HIDE DEF Q, i
  <2>. QED  BY <1>3, <1>4
<1>. HIDE DEF i
<1>6. i \in 1 .. Len(p) /\ p[i] \in Point
  BY <1>0, <1>1, <1>5
<1>7. b \in Nat /\ p[i] < b /\ \A q \in Point : q < b => q <= p[i]
  BY <1>6, NextPointIs
<1>8. ASSUME NEW j \in i + 1 .. Len(p), NEW q \in Point PROVE q <= p[j]
  <2>1. j \in 1 .. Len(p) /\ p[j] \in Point /\ j > i
    BY <1>0, <1>6
  <2>2. j \notin Bumpable(p)
    BY <1>0, <1>5, <1>6, <2>1
  <2>3. ~ (NextPoint(p[j]) <= TopPoint)
    BY <1>0, <2>1, <2>2 DEF Bumpable
  <2>4. NextPoint(p[j]) \in Nat /\ (q < NextPoint(p[j]) <=> q <= p[j])
    BY <2>1, NextPointIs
  <2>5. q \in Nat /\ q <= TopPoint /\ TopPoint \in Nat
    BY PointAssumption DEF Point
  <2>. QED  BY <2>3, <2>4, <2>5
<1>9. v \in Seq(Nat) /\ Len(v) = i - 1 /\ \A j \in 1 .. i - 1 : v[j] = p[j]
  <2>1. p \in Seq(Nat)
    BY PointStrings
  <2>2. i - 1 \in 0 .. Len(p) /\ Len(p) \in Nat
    BY <1>0, <1>6
  <2>. QED  BY <2>1, <2>2, SubSeqProperties
<1>. HIDE DEF v, b
<1>10. u = Append(v, b)
  BY DEF UpperBound, i, v, b
<1>. HIDE DEF u
<1>11. /\ u \in Seq(Nat) /\ Len(u) = (i - 1) + 1 /\ u[(i - 1) + 1] = b
       /\ \A j \in 1 .. i - 1 : u[j] = v[j]
  BY <1>7, <1>9, <1>10
<1>12. (i - 1) + 1 = i
  BY <1>6
<1>13. u \in Seq(Nat) /\ Len(u) = i /\ u[i] = b /\ \A j \in 1 .. i - 1 : u[j] = p[j]
  BY <1>9, <1>11, <1>12
<1>. QED  BY <1>6, <1>7, <1>8, <1>13 DEF u

\* The strings in the range are those that start with the prefix.
LEMMA RangeIsPrefix ==
  ASSUME NEW p \in Seq(Point), NEW n \in Seq(Point), Bumpable(p) # {}
  PROVE  (~ Below(n, p) /\ Below(n, UpperBound(p))) <=> StartsWith(n, p)
<1>1. PICK i \in 1 .. Len(p), b \in Nat, u \in Seq(Nat) :
         /\ u = UpperBound(p) /\ Len(u) = i /\ u[i] = b
         /\ \A j \in 1 .. i - 1 : u[j] = p[j]
         /\ p[i] < b /\ \A q \in Point : q < b => q <= p[i]
         /\ \A j \in i + 1 .. Len(p), q \in Point : q <= p[j]
  BY UpperBoundIs
<1>2. /\ p \in Seq(Nat) /\ n \in Seq(Nat) /\ Len(p) \in Nat /\ Len(n) \in Nat
      /\ \A j \in 1 .. Len(p) : p[j] \in Point /\ p[j] \in Nat
      /\ \A j \in 1 .. Len(n) : n[j] \in Point /\ n[j] \in Nat
  BY PointStrings
<1>3. ASSUME StartsWith(n, p) PROVE ~ Below(n, p) /\ Below(n, u)
  <2>1. Len(p) <= Len(n) /\ \A j \in 1 .. Len(p) : n[j] = p[j]
    BY <1>2, <1>3, StartsWithIs
  <2>2. ASSUME NEW m \in Nat, Parts(n, p, m) PROVE FALSE
    <3>1. m < Len(p) /\ (m = Len(n) \/ n[m + 1] < p[m + 1])
      BY <2>2 DEF Parts
    <3>2. m + 1 \in 1 .. Len(p) /\ m # Len(n)
      BY <1>2, <2>1, <3>1
    <3>3. n[m + 1] = p[m + 1] /\ p[m + 1] \in Nat
      BY <1>2, <2>1, <3>2
    <3>. QED  BY <3>1, <3>2, <3>3
  <2>3. i - 1 \in Nat /\ i - 1 <= Len(n) /\ i - 1 < i /\ (i - 1) + 1 = i
    BY <1>2, <2>1
  <2>4. \A j \in 1 .. i - 1 : n[j] = u[j]
    BY <1>1, <1>2, <2>1
  <2>5. n[i] < u[i]
    BY <1>1, <2>1
  <2>6. Parts(n, u, i - 1)
    BY <1>1, <2>3, <2>4, <2>5 DEF Parts
  <2>. QED  BY <1>2, <2>2, <2>3, <2>6, BelowParts
<1>4. ASSUME ~ Below(n, p), Below(n, u) PROVE StartsWith(n, p)
  <2>0. \A m \in Nat : ~ Parts(n, p, m)
    BY <1>2, <1>4, BelowParts
  <2>1. PICK m \in Nat : Parts(n, u, m)
    BY <1>2, <1>4, BelowParts
  <2>2. m <= Len(n) /\ m < i /\ (\A j \in 1 .. m : n[j] = u[j]) /\ (m = Len(n) \/ n[m + 1] < u[m + 1])
    BY <1>1, <2>1 DEF Parts
  <2>3. m < Len(p) /\ \A j \in 1 .. m : n[j] = p[j]
    BY <1>1, <1>2, <2>2
  <2>4. m # Len(n) /\ ~ (n[m + 1] < p[m + 1])
    BY <2>0, <2>2, <2>3 DEF Parts
  <2>5. m = i - 1
    <3>1. SUFFICES ASSUME m < i - 1 PROVE FALSE
      BY <2>2
    <3>2. u[m + 1] = p[m + 1]
      BY <1>1, <3>1
    <3>. QED  BY <2>2, <2>4, <3>2
  <2>6. m + 1 = i /\ i \in 1 .. Len(n)
    <3>1. m <= Len(n) /\ m # Len(n) /\ m = i - 1 /\ Len(n) \in Nat
      BY <1>2, <2>2, <2>4, <2>5
    <3>. QED  BY <3>1
  <2>7. n[i] = p[i]
    <3>1. n[i] \in Point /\ n[i] \in Nat /\ p[i] \in Nat
      BY <1>2, <2>6
    <3>2. n[i] < b /\ ~ (n[i] < p[i])
      BY <1>1, <2>2, <2>4, <2>6
    <3>3. n[i] <= p[i]
      BY <1>1, <3>1, <3>2
    <3>. QED  BY <3>1, <3>2, <3>3
  <2>8. \A j \in 1 .. i : n[j] = p[j]
    BY <2>3, <2>5, <2>7
  <2>9. CASE n = p
    BY <1>2, <2>9, StartsWithIs
  <2>10. CASE n # p
    <3>1. PICK k \in Nat : Parts(p, n, k)
      BY <1>2, <1>4, <2>10, BelowTotal, BelowParts
    <3>2. /\ k <= Len(p) /\ k < Len(n) /\ \A j \in 1 .. k : p[j] = n[j]
          /\ k = Len(p) \/ p[k + 1] < n[k + 1]
      BY <3>1 DEF Parts
    <3>3. k = Len(p)
      <4>1. SUFFICES ASSUME k < Len(p), p[k + 1] < n[k + 1] PROVE FALSE
        BY <1>2, <3>2
      <4>2. k + 1 \in 1 .. Len(p) /\ k + 1 \in 1 .. Len(n)
        BY <1>2, <3>2, <4>1
      <4>3. p[k + 1] \in Nat /\ n[k + 1] \in Nat /\ n[k + 1] \in Point
        BY <1>2, <4>2
      <4>4. n[k + 1] <= p[k + 1]
        <5>1. CASE k + 1 <= i
          BY <2>8, <4>2, <4>3, <5>1
        <5>2. CASE k + 1 > i
          BY <1>1, <4>2, <4>3, <5>2
        <5>. QED  BY <5>1, <5>2
      <4>. QED  BY <4>1, <4>3, <4>4
    <3>4. Len(p) <= Len(n) /\ \A j \in 1 .. Len(p) : n[j] = p[j]
      <4>1. Len(p) <= Len(n)
        BY <1>2, <3>2, <3>3
      <4>. QED  BY <3>2, <3>3, <4>1
    <3>. QED  BY <1>2, <3>4, StartsWithIs
  <2>. QED  BY <2>9, <2>10
<1>. QED  BY <1>1, <1>3, <1>4

\* namespaces(prefix), read off the index or filtered, is what starts with the prefix.
LEMMA NamespacesFromIs ==
  ASSUME NEW p \in Seq(Point), Namespaces \subseteq Seq(Point)
  PROVE  NamespacesFrom(p) = {n \in Namespaces : StartsWith(n, p)}
<1>1. CASE Bumpable(p) = {}
  BY <1>1 DEF NamespacesFrom
<1>2. CASE Bumpable(p) # {}
  <2>1. \A n \in Namespaces : (~ Below(n, p) /\ Below(n, UpperBound(p))) <=> StartsWith(n, p)
    BY <1>2, RangeIsPrefix
  <2>. QED  BY <1>2, <2>1 DEF NamespacesFrom
<1>. QED  BY <1>1, <1>2

-----------------------------------------------------------------------------
(* _entries *)

\* The rows of one namespace, by key, are in a linear order.
LEMMA ByKeyLinear ==
  ASSUME NEW D, IsFiniteSet(D), NEW n, \A r \in D : r = <<n, r[2]>> /\ r[2] \in Seq(Nat)
  PROVE  Linear(D, {p \in D \X D : Below(p[1][2], p[2][2])})
<1>. DEFINE R == {p \in D \X D : Below(p[1][2], p[2][2])}
<1>1. \A a, b \in D : <<a, b>> \in R <=> Below(a[2], b[2])
  OBVIOUS
<1>. HIDE DEF R
<1>2. \A a \in D : <<a, a>> \notin R
  BY <1>1, BelowIrreflexive
<1>3. ASSUME NEW a \in D, NEW b \in D, NEW c \in D, <<a, b>> \in R, <<b, c>> \in R
      PROVE  <<a, c>> \in R
  BY <1>1, <1>3, BelowTransitive
<1>4. ASSUME NEW a \in D, NEW b \in D, a # b PROVE <<a, b>> \in R \/ <<b, a>> \in R
  <2>1. a[2] # b[2]
    BY <1>4
  <2>. QED  BY <1>1, <2>1, BelowTotal
<1>5. Linear(D, R)
  BY <1>2, <1>3, <1>4 DEF Linear
<1>. QED  BY <1>5 DEF R

OfOneNamespace(b, n) == \A r \in DOMAIN b : r = <<n, r[2]>> /\ r[2] \in Seq(Nat)

Enumerates(es, b) ==
  /\ IsSeq(es)
  /\ \A i \in DOMAIN es : es[i][1] \in DOMAIN b /\ es[i][2] = b[es[i][1]]
  /\ \A i, j \in DOMAIN es : es[i][1] = es[j][1] => i = j
  /\ \A r \in DOMAIN b : \E i \in DOMAIN es : es[i][1] = r

\* The entries of a batch are its rows, each of them once.
LEMMA ListOfIs ==
  ASSUME NEW b, IsFiniteSet(DOMAIN b), NEW n, OfOneNamespace(b, n)
  PROVE  Enumerates(ListOf(b), b)
<1>. DEFINE D      == DOMAIN b
            R      == {p \in D \X D : Below(p[1][2], p[2][2])}
            N      == Cardinality(D)
            rank(r) == Cardinality(Before(D, R, r))
            old(i) == CHOOSE r \in DOMAIN b :
                        Cardinality({q \in DOMAIN b : Below(q[2], r[2])}) = i - 1
            nth(i) == CHOOSE r \in D : rank(r) = i - 1
<1>1. Linear(D, R)
  BY ByKeyLinear DEF OfOneNamespace
<1>2. \A r \in D : Before(D, R, r) = {q \in DOMAIN b : Below(q[2], r[2])}
  BY DEF Before
<1>3. \A i \in 1 .. N : old(i) = nth(i)
  BY <1>2
<1>4. ListOf(b) = [i \in 1 .. N |-> <<old(i), b[old(i)]>>]
  BY DEF ListOf
<1>. HIDE DEF R, old
<1>5. N \in Nat
  BY FS_CardinalityType
<1>6. \A i \in 1 .. N : nth(i) \in D /\ rank(nth(i)) = i - 1
  <2>. TAKE i \in 1 .. N
  <2>1. i - 1 \in 0 .. N - 1
    BY <1>5
  <2>2. \E r \in D : rank(r) = i - 1
    BY <1>1, <2>1, RankSurjective
  <2>. HIDE DEF rank
  <2>. QED  BY <2>2
<1>7. \A r \in D : rank(r) \in 0 .. N - 1
  BY <1>1, RankRange
<1>8. \A r, q \in D : rank(r) = rank(q) => r = q
  BY <1>1, RankInjective
<1>. HIDE DEF rank, nth, D, N
<1>9. DOMAIN ListOf(b) = 1 .. N /\ \A i \in 1 .. N : ListOf(b)[i][1] = nth(i) /\ ListOf(b)[i][2] = b[nth(i)]
  BY <1>3, <1>4
<1>10. \A i, j \in 1 .. N : nth(i) = nth(j) => i = j
  BY <1>6
<1>11. ASSUME NEW r \in D PROVE \E i \in 1 .. N : nth(i) = r
  <2>1. PICK k \in 0 .. N - 1 : k = rank(r)
    BY <1>7
  <2>2. k + 1 \in 1 .. N /\ (k + 1) - 1 = k
    BY <1>5
  <2>3. rank(nth(k + 1)) = rank(r) /\ nth(k + 1) \in D
    BY <1>6, <2>1, <2>2
  <2>. QED  BY <1>8, <2>2, <2>3
<1>12. IsSeq(ListOf(b))
  BY ListOfSeq
<1>. QED  BY <1>6, <1>9, <1>10, <1>11, <1>12 DEF D, Enumerates

\* Where a call that lists entries stands: what it has still to read is under the
\* prefix, and what it has read is not to be read again.
ScanInv ==
  /\ src \in seen["port"]
  /\ port.prefix \in Seq(Point)
  /\ port.nss \subseteq Seq(Point) /\ IsFiniteSet(port.nss)
  /\ \A n \in port.nss : StartsWith(n, port.prefix)
  /\ port.ks \subseteq Seq(Nat)
  /\ port.ks # {} \/ DOMAIN port.batch # {} =>
       StartsWith(port.ns, port.prefix) /\ port.ns \notin port.nss
  /\ \A r \in DOMAIN port.batch : r = <<port.ns, r[2]>> /\ r[2] \in Seq(Nat) /\ r[2] \notin port.ks
  /\ port.doubt \subseteq DOMAIN port.batch
  /\ port.pc # "contains" => DOMAIN port.batch = {}
  /\ port.pc = "entries" => port.nss = {} /\ port.ks = {}

\* A row of the batch has a value it had; in doubt is whether None stands for one that
\* was missing.
BatchInv ==
  \A r \in DOMAIN port.batch :
    \/ r \notin port.doubt /\ Emitted(r, port.batch[r])
    \/ r \in port.doubt /\ port.batch[r] = Null
       /\ \E s \in seen["port"] : r \notin DOMAIN s \/ s[r] = Null

OutInv ==
  /\ IsSeq(port.out)
  /\ \A i \in DOMAIN port.out :
       LET r == port.out[i][1] IN
       /\ Emitted(r, port.out[i][2])
       /\ StartsWith(r[1], port.prefix)
       /\ r[1] \notin port.nss /\ ~ (r[1] = port.ns /\ r[2] \in port.ks) /\ r \notin DOMAIN port.batch
  /\ \A i, j \in DOMAIN port.out : port.out[i][1] = port.out[j][1] => i = j

\* A row that has been there throughout is still to be read or has been emitted.
CoverInv ==
  \A r \in Always("port") : StartsWith(r[1], port.prefix) =>
    \/ r[1] \in port.nss
    \/ r[1] = port.ns /\ r[2] \in port.ks
    \/ r \in DOMAIN port.batch
    \/ \E i \in DOMAIN port.out : port.out[i][1] = r

EntriesInv == port.pc \in Listing => ScanInv /\ BatchInv /\ OutInv /\ CoverInv

LEMMA EntriesInit == Init => EntriesInv
BY DEF Init, PortInit, NoCall, EntriesInv, Listing

\* The steps of the other clients.
LEMMA PortRests ==
  ASSUME SeenTypes, UNCHANGED port, [Next]_vars, ~ PortNext
  PROVE  \/ UNCHANGED src /\ seen'["port"] = seen["port"]
         \/ seen'["port"] = IF seen["port"] = {} THEN {} ELSE seen["port"] \cup {src'}
<1>0. "port" \in Watcher /\ "port" \notin Caller
  BY PortAssumption, RowsAssumption
<1>1. CASE UNCHANGED src /\ UNCHANGED seen
  BY <1>1
<1>2. CASE \E new : Becomes(new)
  BY <1>0, <1>2 DEF Becomes
<1>3. CASE UNCHANGED src /\ \E c \in Caller : Watch(c) \/ Unwatch(c)
  BY <1>0, <1>3 DEF Watch, Unwatch, SeenTypes
<1>4. CASE \E o \in Object : Restart(o)
  BY <1>0, <1>4 DEF Restart
<1>5. CASE CrewNext
  BY <1>1, <1>2, <1>3, <1>4, <1>5
     DEF CrewNext, SaveKey, SaveSet, search, reset, List, SearchGet, SearchRank, ResetDelete,
         Done, store
<1>. QED  BY <1>1, <1>2, <1>5 DEF Next, Write, Delete, vars, store

\* They add to what the call may have seen, and take from what was there throughout.
LEMMA EntriesRest ==
  ASSUME EntriesInv, UNCHANGED port,
         \/ UNCHANGED src /\ seen'["port"] = seen["port"]
         \/ seen'["port"] = IF seen["port"] = {} THEN {} ELSE seen["port"] \cup {src'}
  PROVE  EntriesInv'
<1>. SUFFICES ASSUME port.pc \in Listing PROVE (ScanInv /\ BatchInv /\ OutInv /\ CoverInv)'
  BY DEF EntriesInv
<1>1. ScanInv /\ BatchInv /\ OutInv /\ CoverInv /\ port' = port
  BY DEF EntriesInv
<1>2. src' \in seen'["port"] /\ src \in seen'["port"] /\ \A s \in seen["port"] : s \in seen'["port"]
  BY <1>1 DEF ScanInv
<1>3. \A r, v : Emitted(r, v) => Emitted(r, v)'
  BY <1>2 DEF Emitted, Had
<1>4. \A r \in Always("port")' : r \in Always("port")
  BY <1>2 DEF Always
<1>5. ScanInv'
  BY <1>1, <1>2 DEF ScanInv
<1>6. BatchInv'
  BY <1>1, <1>2, <1>3 DEF BatchInv
<1>7. OutInv'
  BY <1>1, <1>3 DEF OutInv
<1>8. CoverInv'
  BY <1>1, <1>4 DEF CoverInv
<1>. QED  BY <1>5, <1>6, <1>7, <1>8

EntriesAll == PortShape /\ FiniteInv /\ CrewTypes /\ SeenTypes /\ EntriesInv

LEMMA Begins ==
  ASSUME EntriesAll, NEW op, NEW to, NEW p \in Prefixes, Begin(op, to, p)
  PROVE  EntriesInv'
<1>0. PortShape /\ FiniteInv /\ CrewTypes /\ SeenTypes
  BY DEF EntriesAll
<1>1. /\ port' = [NoCall EXCEPT !.pc = "ns", !.op = op, !.to = to, !.prefix = p,
                                !.nss = NamespacesFrom(p)]
      /\ src' = src /\ seen' = [seen EXCEPT !["port"] = {src}]
  BY DEF Begin, Watch
<1>2. PICK N : N = NamespacesFrom(p)
  OBVIOUS
<1>3. /\ port'.prefix = p /\ port'.nss = N /\ port'.ks = {} /\ port'.batch = Empty
      /\ port'.doubt = {} /\ port'.out = <<>> /\ port'.pc = "ns"
  BY <1>1, <1>2 DEF NoCall
<1>4. seen'["port"] = {src}
  BY <1>0, <1>1, PortAssumption DEF SeenTypes
<1>5. Namespaces \subseteq Seq(Point) /\ IsFiniteSet(Namespaces)
  <2>1. \A r \in DOMAIN src : r[1] \in Seq(Point)
    BY <1>0 DEF CrewTypes
  <2>2. Namespaces \subseteq Seq(Point)
    BY <2>1 DEF Namespaces
  <2>3. [r \in DOMAIN src |-> r[1]] \in Surjection(DOMAIN src, Namespaces)
    BY DEF Surjection, Namespaces
  <2>. QED  BY <1>0, <2>2, <2>3, FS_Surjection DEF FiniteInv
<1>6. p \in Seq(Point) /\ N = {n \in Namespaces : StartsWith(n, p)}
  BY <1>2, <1>5, NamespacesFromIs, PortAssumption
<1>7. N \in SUBSET Namespaces /\ IsFiniteSet(N)
  BY <1>5, <1>6, FS_Subset
<1>8. DOMAIN Empty = {}
  BY DEF Empty
<1>9. ScanInv'
  BY <1>1, <1>3, <1>4, <1>5, <1>6, <1>7, <1>8, ZenonT(60) DEF ScanInv
<1>10. BatchInv'
  BY <1>3, <1>8 DEF BatchInv
<1>11. OutInv'
  BY <1>3, NoFrames DEF OutInv
<1>12. CoverInv'
  <2>1. \A r \in DOMAIN src : StartsWith(r[1], p) => r[1] \in N
    BY <1>6 DEF Namespaces
  <2>. QED  BY <1>1, <1>3, <2>1 DEF CoverInv, Always
<1>. QED  BY <1>9, <1>10, <1>11, <1>12 DEF EntriesInv

\* A step of the call reads the store as it is.
LEMMA SameStore ==
  ASSUME UNCHANGED store
  PROVE  /\ src' = src /\ seen' = seen /\ Always("port")' = Always("port")
         /\ \A r, v : Emitted(r, v)' <=> Emitted(r, v)
BY DEF store, Always, Emitted, Had

LEMMA NextNsEntries ==
  ASSUME EntriesAll, NextNs
  PROVE  EntriesInv'
<1>. DEFINE n == Least(port.nss)
<1>0. PortShape /\ FiniteInv /\ CrewTypes /\ EntriesInv
  BY DEF EntriesAll
<1>1. /\ port.pc = "ns" /\ port.ks = {} /\ port.nss # {} /\ UNCHANGED store
      /\ port' = [port EXCEPT !.nss = @ \ {n}, !.ns = n, !.ks = keys(n)]
  BY DEF NextNs, Step
<1>. HIDE DEF n
<1>2. /\ port'.nss = port.nss \ {n} /\ port'.ns = n /\ port'.ks = keys(n) /\ port'.pc = "ns"
      /\ port'.prefix = port.prefix /\ port'.batch = port.batch /\ port'.doubt = port.doubt
      /\ port'.out = port.out
  BY <1>0, <1>1 DEF PortShape, IsCall
<1>3. ScanInv /\ BatchInv /\ OutInv /\ CoverInv
  BY <1>0, <1>1 DEF EntriesInv, Listing
<1>4. port.nss \in SUBSET Seq(Nat) /\ n \in port.nss
  <2>1. \A s \in port.nss : s \in Seq(Nat)
    BY <1>3, PointStrings DEF ScanInv
  <2>. QED  BY <1>1, <1>3, <2>1, LeastIs DEF ScanInv, n
<1>5. DOMAIN port.batch = {} /\ port.doubt = {}
  BY <1>1, <1>3 DEF ScanInv
<1>6. keys(n) \subseteq Seq(Nat) /\ IsFiniteSet(port.nss \ {n})
  BY <1>0, <1>3, KeysAreStrings, FS_Difference DEF ScanInv
<1>7. ScanInv'
  BY <1>1, <1>2, <1>3, <1>4, <1>5, <1>6, SameStore DEF ScanInv
<1>8. BatchInv'
  BY <1>2, <1>5 DEF BatchInv
<1>9. OutInv'
  BY <1>1, <1>2, <1>3, <1>4, <1>5, SameStore DEF OutInv
<1>10. \A r \in DOMAIN src : r[1] = n => r[2] \in keys(n)
  BY DEF keys
<1>11. CoverInv'
  <2>. SUFFICES ASSUME NEW r \in Always("port"), StartsWith(r[1], port.prefix)
                PROVE  \/ r[1] \in port.nss \ {n}
                       \/ r[1] = n /\ r[2] \in keys(n)
                       \/ r \in DOMAIN port.batch
                       \/ \E i \in DOMAIN port.out : port.out[i][1] = r
    BY <1>1, <1>2, SameStore DEF CoverInv
  <2>1. r \in DOMAIN src
    BY DEF Always
  <2>. QED  BY <1>1, <1>3, <1>10, <2>1 DEF CoverInv
<1>. QED  BY <1>7, <1>8, <1>9, <1>11 DEF EntriesInv

LEMMA ChunkEntries ==
  ASSUME EntriesAll, Chunk
  PROVE  EntriesInv'
<1>. DEFINE rs   == {port.ns} \X NextKeys
            vals == [r \in rs |-> IF r \in DOMAIN src THEN src[r] ELSE Null]
            d    == {r \in rs : vals[r] = Null}
<1>0. PortShape /\ EntriesInv
  BY DEF EntriesAll
<1>1. /\ port.pc = "ns" /\ port.ks # {} /\ UNCHANGED store
      /\ port' = [port EXCEPT !.pc = "contains", !.ks = @ \ NextKeys, !.batch = vals, !.doubt = d]
  BY DEF Chunk, Step
<1>2. DOMAIN vals = rs /\ \A r \in rs : vals[r] = IF r \in DOMAIN src THEN src[r] ELSE Null
  OBVIOUS
<1>3. d \subseteq rs /\ \A r \in rs : r \in d <=> vals[r] = Null
  OBVIOUS
<1>4. NextKeys \subseteq port.ks
  BY DEF NextKeys
<1>5. \A r \in rs : r = <<port.ns, r[2]>> /\ r[1] = port.ns /\ r[2] \in NextKeys
  OBVIOUS
<1>a. \A r : r = <<port.ns, r[2]>> /\ r[2] \in NextKeys => r \in rs
  OBVIOUS
<1>. HIDE DEF vals, d, rs
<1>6. /\ port'.nss = port.nss /\ port'.ns = port.ns /\ port'.ks = port.ks \ NextKeys
      /\ port'.pc = "contains" /\ port'.prefix = port.prefix /\ port'.batch = vals
      /\ port'.doubt = d /\ port'.out = port.out
  BY <1>0, <1>1 DEF PortShape, IsCall
<1>7. ScanInv /\ BatchInv /\ OutInv /\ CoverInv
  BY <1>0, <1>1 DEF EntriesInv, Listing
<1>8. ScanInv'
  BY <1>1, <1>2, <1>3, <1>4, <1>5, <1>6, <1>7, SameStore DEF ScanInv
<1>9. ASSUME NEW r \in rs
      PROVE  \/ r \notin d /\ Emitted(r, vals[r])
             \/ r \in d /\ vals[r] = Null /\ \E s \in seen["port"] : r \notin DOMAIN s \/ s[r] = Null
  <2>1. CASE r \in d
    BY <1>2, <1>3, <1>7, <2>1 DEF ScanInv
  <2>2. CASE r \notin d
    BY <1>2, <1>3, <1>7, <2>2 DEF ScanInv, Emitted, Had
  <2>. QED  BY <2>1, <2>2
<1>10. BatchInv'
  BY <1>1, <1>2, <1>6, <1>9, SameStore DEF BatchInv
<1>11. OutInv'
  <2>1. \A r : ~ (r[1] = port.ns /\ r[2] \in port.ks) => ~ (r[1] = port.ns /\ r[2] \in port.ks \ NextKeys) /\ r \notin rs
    BY <1>4, <1>5
  <2>. QED  BY <1>1, <1>2, <1>6, <1>7, <2>1, SameStore DEF OutInv
<1>12. CoverInv'
  <2>. SUFFICES ASSUME NEW r \in Always("port"), StartsWith(r[1], port.prefix)
                PROVE  \/ r[1] \in port.nss
                       \/ r[1] = port.ns /\ r[2] \in port.ks \ NextKeys
                       \/ r \in rs
                       \/ \E i \in DOMAIN port.out : port.out[i][1] = r
    BY <1>1, <1>2, <1>6, SameStore DEF CoverInv
  <2>1. r = <<r[1], r[2]>>
    BY DEF Always, EntriesAll, CrewTypes
  <2>2. DOMAIN port.batch = {}
    BY <1>1, <1>7 DEF ScanInv
  <2>. QED  BY <1>7, <1>a, <2>1, <2>2 DEF CoverInv
<1>. QED  BY <1>8, <1>10, <1>11, <1>12 DEF EntriesInv

LEMMA ContainsEntries ==
  ASSUME EntriesAll, Contains
  PROVE  EntriesInv'
<1>. DEFINE K == {q[2] : q \in port.doubt}
            r == <<port.ns, Least(K)>>
            b == IF r \in DOMAIN src THEN port.batch ELSE Without(port.batch, {r})
<1>0. PortShape /\ FiniteInv /\ EntriesInv
  BY DEF EntriesAll
<1>1. /\ port.pc = "contains" /\ port.doubt # {} /\ UNCHANGED store
      /\ port' = [port EXCEPT !.doubt = @ \ {r}, !.batch = b]
  BY DEF Contains, Step
<1>2. ScanInv /\ BatchInv /\ OutInv /\ CoverInv
  BY <1>0, <1>1 DEF EntriesInv, Listing
<1>3. r \in port.doubt
  <2>1. \A q \in port.doubt : q = <<port.ns, q[2]>> /\ q[2] \in Seq(Nat)
    BY <1>2 DEF ScanInv
  <2>2. IsFiniteSet(port.doubt)
    BY <1>0, <1>2, FS_Subset DEF ScanInv, FiniteInv
  <2>3. [q \in port.doubt |-> q[2]] \in Surjection(port.doubt, K)
    BY DEF Surjection
  <2>4. IsFiniteSet(K) /\ K \in SUBSET Seq(Nat) /\ K # {}
    BY <1>1, <2>1, <2>2, <2>3, FS_Surjection
  <2>5. Least(K) \in K
    BY <2>4, LeastIs
  <2>6. PICK q \in port.doubt : q[2] = Least(K)
    BY <2>5
  <2>. QED  BY <2>1, <2>6
<1>. HIDE DEF r
<1>4. /\ DOMAIN b \subseteq DOMAIN port.batch /\ \A q \in DOMAIN b : b[q] = port.batch[q]
      /\ \A q \in DOMAIN port.batch : q \in DOMAIN b \/ (q = r /\ r \notin DOMAIN src)
      /\ r \in DOMAIN b => r \in DOMAIN src
  BY DEF Without
<1>. HIDE DEF b
<1>5. /\ port'.nss = port.nss /\ port'.ns = port.ns /\ port'.ks = port.ks
      /\ port'.pc = "contains" /\ port'.prefix = port.prefix /\ port'.batch = b
      /\ port'.doubt = port.doubt \ {r} /\ port'.out = port.out
  BY <1>0, <1>1 DEF PortShape, IsCall
<1>6. port.doubt \ {r} \subseteq DOMAIN b
  BY <1>2, <1>4 DEF ScanInv
<1>7. ScanInv'
  BY <1>1, <1>2, <1>4, <1>5, <1>6, SameStore DEF ScanInv
<1>8. r \in DOMAIN src => Emitted(r, Null)
  <2>1. PICK s \in seen["port"] : r \notin DOMAIN s \/ s[r] = Null
    BY <1>2, <1>3 DEF BatchInv, ScanInv
  <2>2. src \in seen["port"]
    BY <1>2 DEF ScanInv
  <2>. QED  BY <2>1, <2>2 DEF Emitted, Had
<1>9. ASSUME NEW q \in DOMAIN b
      PROVE  \/ q \notin port.doubt \ {r} /\ Emitted(q, b[q])
             \/ /\ q \in port.doubt \ {r} /\ b[q] = Null
                /\ \E s \in seen["port"] : q \notin DOMAIN s \/ s[q] = Null
  <2>1. CASE q = r
    <3>1. b[q] = Null
      BY <1>2, <1>3, <1>4, <2>1 DEF BatchInv, ScanInv
    <3>. QED  BY <1>4, <1>8, <2>1, <3>1
  <2>2. CASE q # r
    BY <1>2, <1>4, <2>2 DEF BatchInv
  <2>. QED  BY <2>1, <2>2
<1>10. BatchInv'
  BY <1>1, <1>5, <1>9, SameStore DEF BatchInv
<1>11. OutInv'
  BY <1>1, <1>2, <1>4, <1>5, SameStore DEF OutInv
<1>12. CoverInv'
  <2>1. \A q \in Always("port") : q \in DOMAIN src
    BY DEF Always
  <2>2. \A q \in Always("port") : q \in DOMAIN port.batch => q \in DOMAIN b
    BY <1>4, <2>1
  <2>. QED  BY <1>1, <1>2, <1>5, <2>2, SameStore DEF CoverInv
<1>. QED  BY <1>7, <1>10, <1>11, <1>12 DEF EntriesInv

LEMMA EmitEntries ==
  ASSUME EntriesAll, Emit
  PROVE  EntriesInv'
<1>. DEFINE es == ListOf(port.batch)
<1>0. PortShape /\ FiniteInv /\ EntriesInv
  BY DEF EntriesAll
<1>1. /\ port.pc = "contains" /\ port.doubt = {} /\ UNCHANGED store
      /\ port' = [port EXCEPT !.pc = "ns", !.batch = Empty, !.out = @ \o es]
  BY DEF Emit, Step
<1>. HIDE DEF es
<1>a. PICK out : out = port.out \o es
  OBVIOUS
<1>2. ScanInv /\ BatchInv /\ OutInv /\ CoverInv
  BY <1>0, <1>1 DEF EntriesInv, Listing
<1>3. /\ port'.nss = port.nss /\ port'.ns = port.ns /\ port'.ks = port.ks
      /\ port'.pc = "ns" /\ port'.prefix = port.prefix /\ port'.batch = Empty
      /\ port'.doubt = {} /\ port'.out = out
  BY <1>0, <1>1, <1>a DEF PortShape, IsCall
<1>4. DOMAIN Empty = {}
  BY DEF Empty
<1>5. /\ IsSeq(es)
      /\ \A i \in DOMAIN es : es[i][1] \in DOMAIN port.batch /\ es[i][2] = port.batch[es[i][1]]
      /\ \A i, j \in DOMAIN es : es[i][1] = es[j][1] => i = j
      /\ \A r \in DOMAIN port.batch : \E i \in DOMAIN es : es[i][1] = r
  <2>1. IsFiniteSet(DOMAIN port.batch) /\ OfOneNamespace(port.batch, port.ns)
    BY <1>0, <1>2 DEF ScanInv, FiniteInv, OfOneNamespace
  <2>2. Enumerates(es, port.batch)
    BY <2>1, ListOfIs DEF es
  <2>. QED  BY <2>2 DEF Enumerates
<1>6. PICK m \in Nat, k \in Nat :
         /\ m = Len(port.out) /\ k = Len(es) /\ DOMAIN port.out = 1 .. m /\ DOMAIN es = 1 .. k
         /\ IsSeq(port.out)
  BY <1>2, <1>5, SeqHas DEF OutInv
<1>7. /\ IsSeq(out) /\ DOMAIN out = 1 .. m + k
      /\ \A i \in 1 .. m : out[i] = port.out[i]
      /\ \A i \in m + 1 .. m + k : out[i] = es[i - m]
  BY <1>5, <1>6, <1>a, SeqConcat, SeqHas
<1>8. /\ \A i \in 1 .. m : i \in 1 .. m + k
      /\ \A i \in 1 .. k : m + i \in m + 1 .. m + k /\ m + i \in 1 .. m + k /\ (m + i) - m = i
      /\ \A i \in 1 .. m + k : i \in 1 .. m \/ (i \in m + 1 .. m + k /\ i - m \in 1 .. k)
  OBVIOUS
<1>9. ScanInv'
  BY <1>1, <1>2, <1>3, <1>4, SameStore DEF ScanInv
<1>10. BatchInv'
  BY <1>3, <1>4 DEF BatchInv
<1>11. ASSUME NEW i \in 1 .. m + k
       PROVE  LET r == out[i][1] IN
              /\ Emitted(r, out[i][2])
              /\ StartsWith(r[1], port.prefix)
              /\ r[1] \notin port.nss /\ ~ (r[1] = port.ns /\ r[2] \in port.ks)
  <2>1. CASE i \in 1 .. m
    BY <1>2, <1>6, <1>7, <2>1 DEF OutInv
  <2>2. CASE i \in m + 1 .. m + k /\ i - m \in 1 .. k
    <3>1. out[i] = es[i - m] /\ i - m \in DOMAIN es
      BY <1>6, <1>7, <2>2
    <3>2. out[i][1] \in DOMAIN port.batch /\ out[i][2] = port.batch[out[i][1]]
      BY <1>5, <3>1
    <3>3. PICK r \in DOMAIN port.batch : r = out[i][1]
      BY <3>2
    <3>4. r[1] = port.ns /\ r[2] \notin port.ks
      BY <1>2 DEF ScanInv
    <3>5. StartsWith(port.ns, port.prefix) /\ port.ns \notin port.nss
      BY <1>2 DEF ScanInv
    <3>6. Emitted(r, port.batch[r])
      BY <1>1, <1>2 DEF BatchInv
    <3>. QED  BY <3>2, <3>3, <3>4, <3>5, <3>6
  <2>. QED  BY <1>8, <2>1, <2>2
<1>12. ASSUME NEW i \in 1 .. m + k, NEW j \in 1 .. m + k, out[i][1] = out[j][1]
       PROVE  i = j
  <2>0. ASSUME NEW x \in 1 .. m, NEW y \in m + 1 .. m + k, y - m \in 1 .. k PROVE out[x][1] # out[y][1]
    <3>1. out[y] = es[y - m] /\ y - m \in DOMAIN es
      BY <1>6, <1>7, <2>0
    <3>2. out[y][1] \in DOMAIN port.batch
      BY <1>5, <3>1
    <3>3. out[x] = port.out[x] /\ x \in DOMAIN port.out
      BY <1>6, <1>7
    <3>4. out[x][1] \notin DOMAIN port.batch
      BY <1>2, <3>3 DEF OutInv
    <3>. QED  BY <3>2, <3>4
  <2>1. CASE i \in 1 .. m /\ j \in 1 .. m
    <3>1. out[i] = port.out[i] /\ out[j] = port.out[j] /\ i \in DOMAIN port.out /\ j \in DOMAIN port.out
      BY <1>6, <1>7, <2>1
    <3>. QED  BY <1>2, <1>12, <3>1 DEF OutInv
  <2>2. CASE i \in m + 1 .. m + k /\ i - m \in 1 .. k /\ j \in m + 1 .. m + k /\ j - m \in 1 .. k
    <3>1. out[i] = es[i - m] /\ out[j] = es[j - m] /\ i - m \in DOMAIN es /\ j - m \in DOMAIN es
      BY <1>6, <1>7, <2>2
    <3>2. i - m = j - m
      BY <1>5, <1>12, <3>1
    <3>. QED  BY <2>2, <3>2
  <2>. QED  BY <1>8, <1>12, <2>0, <2>1, <2>2
<1>13. OutInv'
  <2>1. \A r, v : Emitted(r, v) => Emitted(r, v)'
    BY <1>1, SameStore
  <2>2. \A i \in 1 .. m + k : Emitted(out[i][1], out[i][2])'
    BY <1>11, <2>1
  <2>. QED  BY <1>3, <1>4, <1>7, <1>11, <1>12, <2>2 DEF OutInv
<1>14. CoverInv'
  <2>. SUFFICES ASSUME NEW r \in Always("port"), StartsWith(r[1], port.prefix)
                PROVE  \/ r[1] \in port.nss
                       \/ r[1] = port.ns /\ r[2] \in port.ks
                       \/ \E i \in DOMAIN out : out[i][1] = r
    BY <1>1, <1>3, SameStore, SMTT(60) DEF CoverInv
  <2>1. CASE r \in DOMAIN port.batch
    <3>1. PICK i \in 1 .. k : es[i][1] = r
      BY <1>5, <1>6, <2>1
    <3>2. m + i \in 1 .. m + k /\ out[m + i] = es[i]
      BY <1>7, <1>8
    <3>. QED  BY <1>7, <3>1, <3>2
  <2>2. CASE \E i \in DOMAIN port.out : port.out[i][1] = r
    BY <1>6, <1>7, <1>8, <2>2
  <2>. QED  BY <1>2, <2>1, <2>2 DEF CoverInv
<1>. QED  BY <1>9, <1>10, <1>13, <1>14 DEF EntriesInv

LEMMA EntriesEnd ==
  ASSUME EntriesAll, EndOfEntries
  PROVE  EntriesInv'
<1>0. PortShape /\ EntriesInv
  BY DEF EntriesAll
<1>1. /\ port.pc = "ns" /\ port.nss = {} /\ port.ks = {} /\ UNCHANGED store
      /\ port' = [port EXCEPT !.pc = "entries"]
  BY DEF EndOfEntries, Step
<1>2. ScanInv /\ BatchInv /\ OutInv /\ CoverInv
  BY <1>0, <1>1 DEF EntriesInv, Listing
<1>3. /\ port'.nss = port.nss /\ port'.ns = port.ns /\ port'.ks = port.ks
      /\ port'.pc = "entries" /\ port'.prefix = port.prefix /\ port'.batch = port.batch
      /\ port'.doubt = port.doubt /\ port'.out = port.out
  BY <1>0, <1>1 DEF PortShape, IsCall
<1>4. ScanInv'
  BY <1>1, <1>2, <1>3, SameStore DEF ScanInv
<1>5. BatchInv'
  BY <1>1, <1>2, <1>3, SameStore DEF BatchInv
<1>6. OutInv'
  BY <1>1, <1>2, <1>3, SameStore DEF OutInv
<1>7. CoverInv'
  BY <1>1, <1>2, <1>3, SameStore DEF CoverInv
<1>. QED  BY <1>4, <1>5, <1>6, <1>7 DEF EntriesInv

LEMMA EntriesStep == EntriesAll /\ [Next]_vars => EntriesInv'
<1>. SUFFICES ASSUME EntriesAll, [Next]_vars PROVE EntriesInv'
  OBVIOUS
<1>0. PortShape /\ SeenTypes /\ EntriesInv
  BY DEF EntriesAll
<1>1. CASE \E p \in Prefixes : copy_store(p) \/ \E to \in {"tmp", "stream"} : dump_store(p, to)
  BY <1>1, Begins DEF copy_store, dump_store
<1>2. ASSUME port'.pc \notin Listing PROVE EntriesInv'
  BY <1>2 DEF EntriesInv
<1>3. CASE Return \/ Raise \/ Crash \/ LoadReturn \/ \E f : load_store(f)
  <2>1. CASE Return \/ Raise \/ Crash \/ LoadReturn
    BY <1>2, <2>1 DEF Return, Raise, Crash, Halt, LoadReturn, Step, NoCall, Listing
  <2>2. ASSUME NEW f, load_store(f) PROVE EntriesInv'
    <3>1. port' = [NoCall EXCEPT !.pc = "load", !.op = "load", !.to = f, !.before = dst]
      BY <2>2 DEF load_store
    <3>2. PICK d : d = dst
      OBVIOUS
    <3>3. port'.pc = "load"
      BY <3>1, <3>2 DEF NoCall
    <3>. QED  BY <1>2, <3>3 DEF Listing
  <2>. QED  BY <1>3, <2>1, <2>2
<1>4. CASE LoadFrame
  <2>1. port.pc = "load" /\ (\E x, y : port' = [port EXCEPT !.at = x, !.pend = y])
    BY <1>4 DEF LoadFrame, Step
  <2>2. port'.pc = "load"
    BY <1>0, <2>1 DEF PortShape, IsCall
  <2>. QED  BY <1>2, <2>2 DEF Listing
<1>5. CASE LoadEnd
  <2>1. \/ port' = [port EXCEPT !.pc = "truncated"]
        \/ port' = [port EXCEPT !.pc = "loaded", !.pend = <<>>]
    BY <1>5 DEF LoadEnd, Step
  <2>2. port'.pc \in {"truncated", "loaded"}
    BY <1>0, <2>1 DEF PortShape, IsCall
  <2>. QED  BY <1>2, <2>2 DEF Listing
<1>6. CASE PortNext
  BY <1>1, <1>3, <1>4, <1>5, <1>6, NextNsEntries, ChunkEntries, ContainsEntries, EmitEntries,
     EntriesEnd DEF PortNext
<1>7. CASE ~ PortNext
  <2>1. UNCHANGED port
    BY <1>7 DEF Next, vars, portvars
  <2>. QED  BY <1>0, <1>7, <2>1, PortRests, EntriesRest
<1>. QED  BY <1>6, <1>7

\* copy_store and dump_store carry each row at most once, with a value it had while
\* they ran or a None that stands for one missing when it was read, only rows under the
\* prefix, and miss none that was there throughout, whatever is written meanwhile
\* (portability.py: _entries, over the index range of backends/_prefix.py).
THEOREM EntriesAreFaithful == Spec => []EntriesFaithful
<1>1. FileInv => PortShape
  BY DEF FileInv
<1>2. CrewInv => FiniteInv /\ CrewTypes
  BY DEF CrewInv
<1>3. PortShape /\ FiniteInv /\ CrewTypes /\ SeenTypes /\ EntriesInv => EntriesAll
  BY DEF EntriesAll
<1>4. EntriesInv => EntriesFaithful
  <2>. SUFFICES ASSUME EntriesInv, port.pc = "entries" PROVE EntriesFaithful
    BY DEF EntriesFaithful
  <2>1. ScanInv /\ OutInv /\ CoverInv
    BY DEF EntriesInv, Listing
  <2>2. port.nss = {} /\ port.ks = {} /\ DOMAIN port.batch = {}
    BY <2>1 DEF ScanInv
  <2>3. \A r \in Always("port") :
          StartsWith(r[1], port.prefix) => \E i \in DOMAIN port.out : port.out[i][1] = r
    BY <2>1, <2>2 DEF CoverInv
  <2>4. \A i \in DOMAIN port.out :
          /\ Emitted(port.out[i][1], port.out[i][2])
          /\ StartsWith(port.out[i][1][1], port.prefix)
          /\ \A j \in DOMAIN port.out : port.out[i][1] = port.out[j][1] => i = j
    BY <2>1 DEF OutInv
  <2>. QED  BY <2>3, <2>4 DEF EntriesFaithful
<1>. QED
  BY <1>1, <1>2, <1>3, <1>4, FileInit, FileStep, CrewInvariant, SeenInit, SeenStep,
     EntriesInit, EntriesStep, PTL DEF Spec
=============================================================================
