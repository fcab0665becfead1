-------------------------- MODULE Outbound_proofs --------------------------
(***************************************************************************)
(* What the pure rules of composing and reading a message compute, whatever *)
(* the headers, the entries and the subjects are: the folds by the loops    *)
(* they stand for, the subject of a reply by the places of its tokens.      *)
(***************************************************************************)
EXTENDS Outbound, Lists_proofs

-----------------------------------------------------------------------------
(* The loops *)

(* Ancestors keeps every id that is not blank, and nothing else. *)
LEMMA AddIdFold ==
  ASSUME NEW s \in Seq(HeaderId)
  PROVE  /\ FoldLeft(AddId, <<>>, s) \in Seq(MessageId)
         /\ \A x : Holds(FoldLeft(AddId, <<>>, s), x)
                     <=> x # Blank /\ \E i \in 1..Len(s) : s[i].id = x
<1> DEFINE n == Len(s)
           Y == Seq(MessageId)
           Steps(f) == [t \in SUBSET (1..n) |->
                          IF t = {} THEN <<>> ELSE AddId(f[t \ {Max(t)}], s[Max(t)])]
           g == CHOOSE f : f = Steps(f)
           Good(k, out) == \A x : Holds(out, x) <=> x # Blank /\ \E i \in 1..k : s[i].id = x
           T == {k \in 0..n : g[1..k] \in Y /\ Good(k, g[1..k])}
<1>1. n \in Nat /\ DOMAIN s = 1..n /\ \A i \in 1..n : s[i] \in HeaderId
  OBVIOUS
<1>2. ASSUME NEW out \in Y, NEW e \in HeaderId PROVE AddId(out, e) \in Y
  <2>1. e.id \in MessageId
    BY DEF HeaderId
  <2>2. Append(out, e.id) \in Y
    BY <2>1, AppendHolds
  <2> HIDE DEF Y
  <2> QED
    BY <2>2 DEF AddId, Unbracket
<1>3. FoldLeft(AddId, <<>>, s) = g[1..n]
  <2>1. FoldLeft(AddId, <<>>, s) = (CHOOSE f : f = [t \in SUBSET (DOMAIN s) |->
            IF t = {} THEN <<>> ELSE AddId(f[t \ {Max(t)}], s[Max(t)])])[DOMAIN s]
    BY Zenon DEF FoldLeft, MapThenFoldSet
  <2> QED
    BY <1>1, <2>1, Zenon
<1> HIDE DEF n, Y
<1>4. g = Steps(g)
  <2> DEFINE step == [i \in 1..n |-> [out \in Y |-> AddId(out, s[i])]]
  <2>1. step \in [1..n -> [Y -> Y]]
    BY <1>1, <1>2
  <2>2. \A out \in Y, i \in 1..n : step[i][out] = AddId(out, s[i])
    OBVIOUS
  <2> HIDE DEF step
  <2>3. PICK f \in [SUBSET (1..n) -> Y] : \A t \in SUBSET (1..n) :
          f[t] = IF t = {} THEN <<>> ELSE step[Max(t)][f[t \ {Max(t)}]]
    <3> DEFINE b == <<>>
    <3>1. b \in Y /\ n \in Nat
      BY <1>1 DEF Y
    <3> HIDE DEF b
    <3>2. \E f \in [SUBSET (1..n) -> Y] : Unfolds(f, n, b, step)
      BY <2>1, <3>1, FoldFound
    <3> QED
      BY <3>2 DEF b, Unfolds
  <2>4. ASSUME NEW t \in SUBSET (1..n), t # {}
        PROVE  f[t] = AddId(f[t \ {Max(t)}], s[Max(t)])
    <3>1. Max(t) \in 1..n
      <4>1. t \subseteq 0..n
        BY <1>1
      <4> QED
        BY <1>1, <2>4, <4>1, MaxIs
    <3>2. f[t \ {Max(t)}] \in Y
      OBVIOUS
    <3> QED
      BY <2>2, <2>3, <2>4, <3>1, <3>2
  <2>5. f = Steps(f)
    BY <2>3, <2>4
  <2> HIDE DEF Steps
  <2> QED
    BY <2>5, Zenon
<1> HIDE DEF g
<1>5. 0 \in T
  <2>1. g[{}] = <<>> /\ 1..0 = {} /\ 0 \in 0..n
    BY <1>1, <1>4
  <2>2. <<>> \in Y
    BY DEF Y
  <2>3. Good(0, <<>>)
    BY DEF Holds
  <2> HIDE DEF Good
  <2> QED
    BY <2>1, <2>2, <2>3
<1>6. ASSUME NEW k \in 0..(n - 1), k \in T PROVE k + 1 \in T
  <2>1. k + 1 \in 1..n /\ k + 1 \in 0..n /\ (k + 1) - 1 = k /\ s[k + 1] \in HeaderId
    BY <1>1
  <2> DEFINE out == g[1..k]
  <2>2. out \in Y /\ Good(k, out)
    BY <1>6
  <2>3. g[1..(k + 1)] = AddId(out, s[k + 1])
    <3>1. /\ (1..(k + 1)) \in SUBSET (1..n) /\ (1..(k + 1)) # {}
          /\ Max(1..(k + 1)) = k + 1 /\ (1..(k + 1)) \ {Max(1..(k + 1))} = 1..k
      BY <1>1, <2>1, RangesFrom1
    <3>2. g[1..(k + 1)] = AddId(g[(1..(k + 1)) \ {Max(1..(k + 1))}], s[Max(1..(k + 1))])
      BY <1>4, <3>1
    <3> QED
      BY <3>1, <3>2, Zenon
  <2> HIDE DEF out
  <2>4. AddId(out, s[k + 1]) \in Y
    BY <1>2, <2>1, <2>2
  <2>5. Good(k + 1, AddId(out, s[k + 1]))
    <3> DEFINE id == s[k + 1].id
    <3>1. \A x : Holds(AddId(out, s[k + 1]), x) <=> Holds(out, x) \/ (x # Blank /\ id = x)
      <4>1. CASE id = Blank
        BY <4>1 DEF AddId, Unbracket
      <4>2. CASE Holds(out, id)
        <5>1. Contains(out, id)
          BY <4>2 DEF Holds, Contains
        <5> QED
          BY <4>2, <5>1 DEF AddId, Unbracket
      <4>3. CASE id # Blank /\ ~Holds(out, id)
        <5>1. AddId(out, s[k + 1]) = Append(out, id)
          BY <4>3 DEF AddId, Unbracket, Holds, Contains
        <5>2. id \in MessageId /\ out \in Seq(MessageId)
          BY <2>1, <2>2 DEF Y, HeaderId
        <5> HIDE DEF id
        <5>3. \A x : Holds(Append(out, id), x) <=> Holds(out, x) \/ x = id
          BY <5>2, AppendHolds
        <5> QED
          BY <4>3, <5>1, <5>3
      <4> QED
        BY <4>1, <4>2, <4>3
    <3>2. \A i : i \in 1..(k + 1) <=> i \in 1..k \/ i = k + 1
      OBVIOUS
    <3> QED
      BY <2>2, <3>1, <3>2
  <2> HIDE DEF Good
  <2> QED
    BY <2>1, <2>3, <2>4, <2>5
<1>7. n \in T
  <2>1. n \in 0..n
    BY <1>1
  <2> HIDE DEF T
  <2> QED
    BY <1>1, <1>5, <1>6, <2>1, Induct
<1> QED
  BY <1>3, <1>7 DEF Y, n

(* What is read back of a References header is every id in it that is not      *)
(* blank, and nothing else.                                                  *)
LEMMA ParseReferencesIs ==
  ASSUME NEW s \in Seq(HeaderId)
  PROVE  /\ ParseReferences(s) \in Seq(MessageId)
         /\ \A x : Holds(ParseReferences(s), x)
                     <=> x # Blank /\ \E i \in 1..Len(s) : s[i].id = x
<1> DEFINE n == Len(s)
           Y == Seq(MessageId)
           Add(out, h) == IF Unbracket(h) = Blank THEN out ELSE Append(out, Unbracket(h))
           Steps(f) == [t \in SUBSET (1..n) |->
                          IF t = {} THEN <<>> ELSE Add(f[t \ {Max(t)}], s[Max(t)])]
           g == CHOOSE f : f = Steps(f)
           Good(k, out) == \A x : Holds(out, x) <=> x # Blank /\ \E i \in 1..k : s[i].id = x
           T == {k \in 0..n : g[1..k] \in Y /\ Good(k, g[1..k])}
<1>1. n \in Nat /\ DOMAIN s = 1..n /\ \A i \in 1..n : s[i] \in HeaderId
  OBVIOUS
<1>2. ASSUME NEW out \in Y, NEW e \in HeaderId PROVE Add(out, e) \in Y
  <2>1. e.id \in MessageId
    BY DEF HeaderId
  <2>2. Append(out, e.id) \in Y
    BY <2>1, AppendHolds
  <2> HIDE DEF Y
  <2> QED
    BY <2>2 DEF Unbracket
<1>3. ParseReferences(s) = g[1..n]
  <2>1. ParseReferences(s) = (CHOOSE f : f = [t \in SUBSET (DOMAIN s) |->
            IF t = {} THEN <<>> ELSE Add(f[t \ {Max(t)}], s[Max(t)])])[DOMAIN s]
    BY Zenon DEF ParseReferences, FoldLeft, MapThenFoldSet
  <2> QED
    BY <1>1, <2>1, Zenon
<1> HIDE DEF n, Y, Add
<1>4. g = Steps(g)
  <2> DEFINE step == [i \in 1..n |-> [out \in Y |-> Add(out, s[i])]]
  <2>1. step \in [1..n -> [Y -> Y]]
    BY <1>1, <1>2
  <2>2. \A out \in Y, i \in 1..n : step[i][out] = Add(out, s[i])
    OBVIOUS
  <2> HIDE DEF step
  <2>3. PICK f \in [SUBSET (1..n) -> Y] : \A t \in SUBSET (1..n) :
          f[t] = IF t = {} THEN <<>> ELSE step[Max(t)][f[t \ {Max(t)}]]
    <3> DEFINE b == <<>>
    <3>1. b \in Y /\ n \in Nat
      BY <1>1 DEF Y
    <3> HIDE DEF b
    <3>2. \E f \in [SUBSET (1..n) -> Y] : Unfolds(f, n, b, step)
      BY <2>1, <3>1, FoldFound
    <3> QED
      BY <3>2 DEF b, Unfolds
  <2>4. ASSUME NEW t \in SUBSET (1..n), t # {}
        PROVE  f[t] = Add(f[t \ {Max(t)}], s[Max(t)])
    <3>1. Max(t) \in 1..n
      <4>1. t \subseteq 0..n
        BY <1>1
      <4> QED
        BY <1>1, <2>4, <4>1, MaxIs
    <3>2. f[t \ {Max(t)}] \in Y
      OBVIOUS
    <3> QED
      BY <2>2, <2>3, <2>4, <3>1, <3>2
  <2>5. f = Steps(f)
    BY <2>3, <2>4
  <2> HIDE DEF Steps
  <2> QED
    BY <2>5, Zenon
<1> HIDE DEF g
<1>5. 0 \in T
  <2>1. g[{}] = <<>> /\ 1..0 = {} /\ 0 \in 0..n
    BY <1>1, <1>4
  <2>2. <<>> \in Y
    BY DEF Y
  <2>3. Good(0, <<>>)
    BY DEF Holds
  <2> HIDE DEF Good
  <2> QED
    BY <2>1, <2>2, <2>3
<1>6. ASSUME NEW k \in 0..(n - 1), k \in T PROVE k + 1 \in T
  <2>1. k + 1 \in 1..n /\ k + 1 \in 0..n /\ (k + 1) - 1 = k /\ s[k + 1] \in HeaderId
    BY <1>1
  <2> DEFINE out == g[1..k]
  <2>2. out \in Y /\ Good(k, out)
    BY <1>6
  <2>3. g[1..(k + 1)] = Add(out, s[k + 1])
    <3>1. /\ (1..(k + 1)) \in SUBSET (1..n) /\ (1..(k + 1)) # {}
          /\ Max(1..(k + 1)) = k + 1 /\ (1..(k + 1)) \ {Max(1..(k + 1))} = 1..k
      BY <1>1, <2>1, RangesFrom1
    <3>2. g[1..(k + 1)] = Add(g[(1..(k + 1)) \ {Max(1..(k + 1))}], s[Max(1..(k + 1))])
      BY <1>4, <3>1
    <3> QED
      BY <3>1, <3>2, Zenon
  <2> HIDE DEF out
  <2>4. Add(out, s[k + 1]) \in Y
    BY <1>2, <2>1, <2>2
  <2>5. Good(k + 1, Add(out, s[k + 1]))
    <3> DEFINE id == s[k + 1].id
    <3>1. \A x : Holds(Add(out, s[k + 1]), x) <=> Holds(out, x) \/ (x # Blank /\ id = x)
      <4>1. CASE id = Blank
        BY <4>1 DEF Add, Unbracket
      <4>2. CASE id # Blank
        <5>1. Add(out, s[k + 1]) = Append(out, id)
          BY <4>2 DEF Add, Unbracket
        <5>2. id \in MessageId /\ out \in Seq(MessageId)
          BY <2>1, <2>2 DEF Y, HeaderId
        <5> HIDE DEF id
        <5>3. \A x : Holds(Append(out, id), x) <=> Holds(out, x) \/ x = id
          BY <5>2, AppendHolds
        <5> QED
          BY <4>2, <5>1, <5>3
      <4> QED
        BY <4>1, <4>2
    <3>2. \A i : i \in 1..(k + 1) <=> i \in 1..k \/ i = k + 1
      OBVIOUS
    <3> QED
      BY <2>2, <3>1, <3>2
  <2> HIDE DEF Good
  <2> QED
    BY <2>1, <2>3, <2>4, <2>5
<1>7. n \in T
  <2>1. n \in 0..n
    BY <1>1
  <2> HIDE DEF T
  <2> QED
    BY <1>1, <1>5, <1>6, <2>1, Induct
<1> QED
  BY <1>3, <1>7 DEF Y, n

(* The mailboxes of a list of entries are those of its entries. *)
LEMMA BoxesOfEntries ==
  ASSUME NEW es \in Seq(Entry)
  PROVE  /\ FlattenSeq(es) \in Seq(Address)
         /\ \A b : b \in Boxes(FlattenSeq(es))
                     <=> \E i \in DOMAIN es : \E j \in DOMAIN es[i] : es[i][j].box = b
<1>1. es \in Seq(Seq(Address))
  BY DEF Entry
<1>2. /\ FlattenSeq(es) \in Seq(Address)
      /\ \A x : (\E i \in DOMAIN FlattenSeq(es) : FlattenSeq(es)[i] = x)
                  <=> \E j \in DOMAIN es : \E i \in DOMAIN es[j] : es[j][i] = x
  <2> HIDE DEF Address
  <2> QED
    BY <1>1, FlattenElements, Zenon
<1> DEFINE all == FlattenSeq(es)
<1> HIDE DEF all
<1>3. \A b : b \in Boxes(all) <=> \E i \in DOMAIN all : all[i].box = b
  BY DEF Boxes
<1>4. \A x : (\E i \in DOMAIN all : all[i] = x)
               <=> \E j \in DOMAIN es : \E i \in DOMAIN es[j] : es[j][i] = x
  BY <1>2 DEF all
<1>5. ASSUME NEW b, NEW i \in DOMAIN all, all[i].box = b
      PROVE  \E j \in DOMAIN es : \E k \in DOMAIN es[j] : es[j][k].box = b
  <2>1. \E j \in DOMAIN es : \E k \in DOMAIN es[j] : es[j][k] = all[i]
    BY <1>4
  <2> QED
    BY <1>5, <2>1
<1>6. ASSUME NEW b, NEW j \in DOMAIN es, NEW k \in DOMAIN es[j], es[j][k].box = b
      PROVE  \E i \in DOMAIN all : all[i].box = b
  <2>1. \E i \in DOMAIN all : all[i] = es[j][k]
    BY <1>4
  <2> QED
    BY <1>6, <2>1
<1>7. \A b : b \in Boxes(all)
               <=> \E i \in DOMAIN es : \E j \in DOMAIN es[i] : es[i][j].box = b
  BY <1>3, <1>5, <1>6
<1> QED
  BY <1>2, <1>7 DEF all

LEMMA FoldedIs ==
  ASSUME NEW a \in Address
  PROVE  Folded(a) \in Address /\ Folded(a) = [box |-> a.box, caps |-> FALSE, named |-> a.named]
<1> DEFINE f == Folded(a)
<1>1. f \in Address /\ f.box = a.box /\ f.caps = FALSE /\ f.named = a.named
  BY DEF Address, Folded
<1> HIDE DEF f
<1>2. f = [box |-> f.box, caps |-> f.caps, named |-> f.named]
  BY <1>1 DEF Address
<1> QED
  BY <1>1, <1>2 DEF f

LEMMA NamelessIs ==
  ASSUME NEW a \in Address
  PROVE  Nameless(a) \in Address /\ Nameless(a) = [box |-> a.box, caps |-> a.caps, named |-> FALSE]
<1> DEFINE f == Nameless(a)
<1>1. f \in Address /\ f.box = a.box /\ f.caps = a.caps /\ f.named = FALSE
  BY DEF Address, Nameless
<1> HIDE DEF f
<1>2. f = [box |-> f.box, caps |-> f.caps, named |-> f.named]
  BY <1>1 DEF Address
<1> QED
  BY <1>1, <1>2 DEF f

(* A name can be taken off an address that stands by itself. *)
LEMMA BareOf ==
  ASSUME NEW e \in Entry, Len(e) = 1
  PROVE  /\ e[1] \in Address /\ One(Nameless(e[1])) \in Entry
         /\ Bare(One(Nameless(e[1]))) /\ One(Nameless(e[1]))[1].box = e[1].box
<1> DEFINE a == e[1]
<1>1. a \in Address
  BY DEF Entry
<1> HIDE DEF a
<1>2. Nameless(a) \in Address /\ ~Nameless(a).named /\ Nameless(a).box = a.box
  BY <1>1 DEF Address, Nameless
<1> DEFINE c == Nameless(a)
<1> HIDE DEF c
<1>3. c \in Address => <<c>> \in Seq(Address) /\ Len(<<c>>) = 1 /\ <<c>>[1] = c
  OBVIOUS
<1> QED
  BY <1>1, <1>2, <1>3 DEF a, c, One, Entry, Bare

LEMMA BoxesOfAppend ==
  ASSUME NEW es \in Seq(Entry), NEW e \in Entry, Bare(e)
  PROVE  \A b : b \in Boxes(FlattenSeq(Append(es, e)))
                  <=> b \in Boxes(FlattenSeq(es)) \/ b = e[1].box
<1> DEFINE all == Append(es, e)
<1>1. all \in Seq(Entry) /\ \A x : Holds(all, x) <=> Holds(es, x) \/ x = e
  <2> HIDE DEF Entry
  <2> QED
    BY AppendHolds
<1> HIDE DEF all
<1>2. DOMAIN e = {1}
  BY DEF Bare, Entry
<1>3. \A b : b \in Boxes(FlattenSeq(all))
               <=> \E x : Holds(all, x) /\ \E j \in DOMAIN x : x[j].box = b
  <2>1. \A b : b \in Boxes(FlattenSeq(all))
                 <=> \E i \in DOMAIN all : \E j \in DOMAIN all[i] : all[i][j].box = b
    BY <1>1, BoxesOfEntries, Zenon
  <2> QED
    BY <2>1, Zenon DEF Holds
<1>4. \A b : b \in Boxes(FlattenSeq(es))
               <=> \E x : Holds(es, x) /\ \E j \in DOMAIN x : x[j].box = b
  <2>1. \A b : b \in Boxes(FlattenSeq(es))
                 <=> \E i \in DOMAIN es : \E j \in DOMAIN es[i] : es[i][j].box = b
    BY BoxesOfEntries, Zenon
  <2> QED
    BY <2>1, Zenon DEF Holds
<1> QED
  BY <1>1, <1>2, <1>3, <1>4 DEF all

(* The envelope of composed mail holds every address that stands in an entry    *)
(* of its own, bare, and nothing else.                                         *)
LEMMA AddRecipientFold ==
  ASSUME NEW s \in Seq(Entry)
  PROVE  /\ FoldLeft(AddRecipient, <<>>, s) \in Seq(Entry)
         /\ \A i \in DOMAIN FoldLeft(AddRecipient, <<>>, s) :
              Bare(FoldLeft(AddRecipient, <<>>, s)[i])
         /\ \A b : b \in Boxes(FlattenSeq(FoldLeft(AddRecipient, <<>>, s)))
                     <=> \E i \in 1..Len(s) : Len(s[i]) = 1 /\ s[i][1].box = b
<1> DEFINE n == Len(s)
           Y == Seq(Entry)
           Steps(f) == [t \in SUBSET (1..n) |->
                          IF t = {} THEN <<>> ELSE AddRecipient(f[t \ {Max(t)}], s[Max(t)])]
           g == CHOOSE f : f = Steps(f)
           Good(k, out) == /\ \A i \in DOMAIN out : Bare(out[i])
                           /\ \A b : b \in Boxes(FlattenSeq(out))
                                       <=> \E i \in 1..k : Len(s[i]) = 1 /\ s[i][1].box = b
           T == {k \in 0..n : g[1..k] \in Y /\ Good(k, g[1..k])}
<1>1. n \in Nat /\ DOMAIN s = 1..n /\ \A i \in 1..n : s[i] \in Entry
  OBVIOUS
<1>2. ASSUME NEW out \in Y, NEW e \in Entry PROVE AddRecipient(out, e) \in Y
  <2>1. CASE Len(e) = 1
    <3>1. One(Nameless(e[1])) \in Entry
      BY <2>1, BareOf
    <3>2. Append(out, One(Nameless(e[1]))) \in Y
      BY <3>1, AppendHolds
    <3> HIDE DEF Y
    <3> QED
      BY <3>2 DEF AddRecipient
  <2>2. CASE Len(e) # 1
    BY <2>2 DEF AddRecipient
  <2> QED
    BY <2>1, <2>2
<1>3. FoldLeft(AddRecipient, <<>>, s) = g[1..n]
  <2>1. FoldLeft(AddRecipient, <<>>, s) = (CHOOSE f : f = [t \in SUBSET (DOMAIN s) |->
            IF t = {} THEN <<>> ELSE AddRecipient(f[t \ {Max(t)}], s[Max(t)])])[DOMAIN s]
    BY Zenon DEF FoldLeft, MapThenFoldSet
  <2> QED
    BY <1>1, <2>1, Zenon
<1> HIDE DEF n, Y
<1>4. g = Steps(g)
  <2> DEFINE step == [i \in 1..n |-> [out \in Y |-> AddRecipient(out, s[i])]]
  <2>1. step \in [1..n -> [Y -> Y]]
    BY <1>1, <1>2
  <2>2. \A out \in Y, i \in 1..n : step[i][out] = AddRecipient(out, s[i])
    OBVIOUS
  <2> HIDE DEF step
  <2>3. PICK f \in [SUBSET (1..n) -> Y] : \A t \in SUBSET (1..n) :
          f[t] = IF t = {} THEN <<>> ELSE step[Max(t)][f[t \ {Max(t)}]]
    <3> DEFINE b == <<>>
    <3>1. b \in Y /\ n \in Nat
      BY <1>1 DEF Y
    <3> HIDE DEF b
    <3>2. \E f \in [SUBSET (1..n) -> Y] : Unfolds(f, n, b, step)
      BY <2>1, <3>1, FoldFound
    <3> QED
      BY <3>2 DEF b, Unfolds
  <2>4. ASSUME NEW t \in SUBSET (1..n), t # {}
        PROVE  f[t] = AddRecipient(f[t \ {Max(t)}], s[Max(t)])
    <3>1. Max(t) \in 1..n
      <4>1. t \subseteq 0..n
        BY <1>1
      <4> QED
        BY <1>1, <2>4, <4>1, MaxIs
    <3>2. f[t \ {Max(t)}] \in Y
      OBVIOUS
    <3> QED
      BY <2>2, <2>3, <2>4, <3>1, <3>2
  <2>5. f = Steps(f)
    BY <2>3, <2>4
  <2> HIDE DEF Steps
  <2> QED
    BY <2>5, Zenon
<1> HIDE DEF g
<1>5. 0 \in T
  <2>1. g[{}] = <<>> /\ 1..0 = {} /\ 0 \in 0..n
    BY <1>1, <1>4
  <2>2. <<>> \in Y
    BY DEF Y
  <2>3. Good(0, <<>>)
    <3>1. FlattenSeq(<<>>) = <<>>
      BY Zenon DEF FlattenSeq
    <3> QED
      BY <3>1 DEF Boxes
  <2> HIDE DEF Good
  <2> QED
    BY <2>1, <2>2, <2>3
<1>6. ASSUME NEW k \in 0..(n - 1), k \in T PROVE k + 1 \in T
  <2>1. k + 1 \in 1..n /\ k + 1 \in 0..n /\ (k + 1) - 1 = k /\ s[k + 1] \in Entry
    BY <1>1
  <2> DEFINE out == g[1..k]
  <2>2. out \in Y /\ Good(k, out)
    BY <1>6
  <2>3. g[1..(k + 1)] = AddRecipient(out, s[k + 1])
    <3>1. /\ (1..(k + 1)) \in SUBSET (1..n) /\ (1..(k + 1)) # {}
          /\ Max(1..(k + 1)) = k + 1 /\ (1..(k + 1)) \ {Max(1..(k + 1))} = 1..k
      BY <1>1, <2>1, RangesFrom1
    <3>2. g[1..(k + 1)] = AddRecipient(g[(1..(k + 1)) \ {Max(1..(k + 1))}], s[Max(1..(k + 1))])
      BY <1>4, <3>1
    <3> QED
      BY <3>1, <3>2, Zenon
  <2> HIDE DEF out
  <2>4. AddRecipient(out, s[k + 1]) \in Y
    BY <1>2, <2>1, <2>2
  <2>5. Good(k + 1, AddRecipient(out, s[k + 1]))
    <3> DEFINE e == s[k + 1]
    <3>1. \A i : i \in 1..(k + 1) <=> i \in 1..k \/ i = k + 1
      OBVIOUS
    <3>2. CASE Len(e) # 1
      <4>1. AddRecipient(out, e) = out
        BY <3>2 DEF AddRecipient
      <4> QED
        BY <2>2, <3>1, <3>2, <4>1
    <3>3. CASE Len(e) = 1 /\ e[1].box \in Boxes(FlattenSeq(out))
      <4>1. AddRecipient(out, e) = out
        BY <3>3 DEF AddRecipient
      <4> QED
        BY <2>2, <3>1, <3>3, <4>1
    <3>4. CASE Len(e) = 1 /\ e[1].box \notin Boxes(FlattenSeq(out))
      <4> DEFINE new == One(Nameless(e[1]))
      <4>1. AddRecipient(out, e) = Append(out, new)
        BY <3>4 DEF AddRecipient
      <4>2. new \in Entry /\ Bare(new) /\ new[1].box = e[1].box
        BY <2>1, <3>4, BareOf
      <4> HIDE DEF new
      <4>3. \A i \in DOMAIN Append(out, new) : Bare(Append(out, new)[i])
        <5>1. \A x : Holds(Append(out, new), x) => Holds(out, x) \/ x = new
          BY <2>2, <4>2, AppendHolds DEF Y
        <5> QED
          BY <2>2, <4>2, <5>1 DEF Holds
      <4>4. \A b : b \in Boxes(FlattenSeq(Append(out, new)))
                     <=> b \in Boxes(FlattenSeq(out)) \/ b = e[1].box
        BY <2>2, <4>2, BoxesOfAppend DEF Y
      <4> QED
        BY <2>2, <3>1, <3>4, <4>1, <4>3, <4>4
    <3> QED
      BY <3>2, <3>3, <3>4
  <2> HIDE DEF Good
  <2> QED
    BY <2>1, <2>3, <2>4, <2>5
<1>7. n \in T
  <2>1. n \in 0..n
    BY <1>1
  <2> HIDE DEF T
  <2> QED
    BY <1>1, <1>5, <1>6, <2>1, Induct
<1> QED
  BY <1>3, <1>7 DEF Y, n

(* An entry in lower case, and what the addresses of the headers look like when *)
(* DeriveBcc compares them.                                                    *)
Lowered(e) == [i \in DOMAIN e |-> Folded(e[i])]
Visible(to, cc) == {One(Folded(Nameless(a))) : a \in Range(to \o cc)}

(* What DeriveBcc returns: entries of the envelope that stand in no header, and   *)
(* every such entry in some spelling.                                           *)
BlindCopies(out, s, to, cc) ==
  /\ out \in Seq(Entry)
  /\ \A i \in DOMAIN out : /\ out[i] # Nobody /\ Lowered(out[i]) \notin Visible(to, cc)
                           /\ \E j \in 1..Len(s) : s[j] = out[i]
  /\ \A j \in 1..Len(s) : s[j] # Nobody /\ Lowered(s[j]) \notin Visible(to, cc) =>
                            \E i \in DOMAIN out : Lowered(out[i]) = Lowered(s[j])

LEMMA DeriveBccIs ==
  ASSUME NEW s \in Seq(Entry), NEW to, NEW cc
  PROVE  BlindCopies(DeriveBcc(s, to, cc), s, to, cc)
<1> DEFINE n == Len(s)
           Y == Seq(Entry)
           Add(out, e) ==
             IF \/ e = Nobody \/ Lowered(e) \in Visible(to, cc)
                \/ \E i \in DOMAIN out : Lowered(out[i]) = Lowered(e)
             THEN out ELSE Append(out, e)
           Steps(f) == [t \in SUBSET (1..n) |->
                          IF t = {} THEN <<>> ELSE Add(f[t \ {Max(t)}], s[Max(t)])]
           g == CHOOSE f : f = Steps(f)
           Good(k, out) ==
             /\ \A i \in DOMAIN out : /\ out[i] # Nobody /\ Lowered(out[i]) \notin Visible(to, cc)
                                      /\ \E j \in 1..k : s[j] = out[i]
             /\ \A j \in 1..k : s[j] # Nobody /\ Lowered(s[j]) \notin Visible(to, cc) =>
                                  \E i \in DOMAIN out : Lowered(out[i]) = Lowered(s[j])
           T == {k \in 0..n : g[1..k] \in Y /\ Good(k, g[1..k])}
<1>1. n \in Nat /\ DOMAIN s = 1..n /\ \A i \in 1..n : s[i] \in Entry
  OBVIOUS
<1>2. ASSUME NEW out \in Y, NEW e \in Entry PROVE Add(out, e) \in Y
  <2>1. Append(out, e) \in Y
    BY AppendHolds
  <2> HIDE DEF Y
  <2> QED
    BY <2>1
<1>3. DeriveBcc(s, to, cc) = g[1..n]
  <2>1. DeriveBcc(s, to, cc) = (CHOOSE f : f = [t \in SUBSET (DOMAIN s) |->
            IF t = {} THEN <<>> ELSE Add(f[t \ {Max(t)}], s[Max(t)])])[DOMAIN s]
    BY Zenon DEF DeriveBcc, Lowered, Visible, FoldLeft, MapThenFoldSet
  <2> QED
    BY <1>1, <2>1, Zenon
<1> HIDE DEF n, Y, Add
<1>4. g = Steps(g)
  <2> DEFINE step == [i \in 1..n |-> [out \in Y |-> Add(out, s[i])]]
  <2>1. step \in [1..n -> [Y -> Y]]
    BY <1>1, <1>2
  <2>2. \A out \in Y, i \in 1..n : step[i][out] = Add(out, s[i])
    OBVIOUS
  <2> HIDE DEF step
  <2>3. PICK f \in [SUBSET (1..n) -> Y] : \A t \in SUBSET (1..n) :
          f[t] = IF t = {} THEN <<>> ELSE step[Max(t)][f[t \ {Max(t)}]]
    <3> DEFINE b == <<>>
    <3>1. b \in Y /\ n \in Nat
      BY <1>1 DEF Y
    <3> HIDE DEF b
    <3>2. \E f \in [SUBSET (1..n) -> Y] : Unfolds(f, n, b, step)
      BY <2>1, <3>1, FoldFound
    <3> QED
      BY <3>2 DEF b, Unfolds
  <2>4. ASSUME NEW t \in SUBSET (1..n), t # {}
        PROVE  f[t] = Add(f[t \ {Max(t)}], s[Max(t)])
    <3>1. Max(t) \in 1..n
      <4>1. t \subseteq 0..n
        BY <1>1
      <4> QED
        BY <1>1, <2>4, <4>1, MaxIs
    <3>2. f[t \ {Max(t)}] \in Y
      OBVIOUS
    <3> QED
      BY <2>2, <2>3, <2>4, <3>1, <3>2
  <2>5. f = Steps(f)
    BY <2>3, <2>4
  <2> HIDE DEF Steps
  <2> QED
    BY <2>5, Zenon
<1> HIDE DEF g
<1>5. 0 \in T
  <2>1. g[{}] = <<>> /\ 1..0 = {} /\ 0 \in 0..n
    BY <1>1, <1>4
  <2>2. <<>> \in Y
    BY DEF Y
  <2>3. Good(0, <<>>)
    OBVIOUS
  <2> HIDE DEF Good
  <2> QED
    BY <2>1, <2>2, <2>3
<1>6. ASSUME NEW k \in 0..(n - 1), k \in T PROVE k + 1 \in T
  <2>1. k + 1 \in 1..n /\ k + 1 \in 0..n /\ (k + 1) - 1 = k /\ s[k + 1] \in Entry
    BY <1>1
  <2> DEFINE out == g[1..k]
  <2>2. out \in Y /\ Good(k, out)
    BY <1>6
  <2>3. g[1..(k + 1)] = Add(out, s[k + 1])
    <3>1. /\ (1..(k + 1)) \in SUBSET (1..n) /\ (1..(k + 1)) # {}
          /\ Max(1..(k + 1)) = k + 1 /\ (1..(k + 1)) \ {Max(1..(k + 1))} = 1..k
      BY <1>1, <2>1, RangesFrom1
    <3>2. g[1..(k + 1)] = Add(g[(1..(k + 1)) \ {Max(1..(k + 1))}], s[Max(1..(k + 1))])
      BY <1>4, <3>1
    <3> QED
      BY <3>1, <3>2, Zenon
  <2> HIDE DEF out
  <2>4. Add(out, s[k + 1]) \in Y
    BY <1>2, <2>1, <2>2
  <2>5. Good(k + 1, Add(out, s[k + 1]))
    <3> DEFINE e == s[k + 1]
    <3>1. \A i : i \in 1..(k + 1) <=> i \in 1..k \/ i = k + 1
      OBVIOUS
    <3> HIDE DEF e
    <3>2. CASE \/ e = Nobody \/ Lowered(e) \in Visible(to, cc)
               \/ \E i \in DOMAIN out : Lowered(out[i]) = Lowered(e)
      <4>1. Add(out, e) = out
        BY <3>2 DEF Add
      <4> QED
        BY <2>2, <3>1, <3>2, <4>1 DEF e
    <3>3. CASE ~(\/ e = Nobody \/ Lowered(e) \in Visible(to, cc)
                 \/ \E i \in DOMAIN out : Lowered(out[i]) = Lowered(e))
      <4> DEFINE all == Append(out, e)
      <4>1. Add(out, e) = all
        BY <3>3 DEF Add
      <4>2. \A x : Holds(all, x) <=> Holds(out, x) \/ x = e
        <5> HIDE DEF all
        <5>1. out \in Seq(Entry) /\ e \in Entry
          BY <2>1, <2>2 DEF Y, e
        <5> QED
          BY <5>1, AppendHolds DEF all
      <4> HIDE DEF all
      <4>3. ASSUME NEW i \in DOMAIN all
            PROVE  /\ all[i] # Nobody /\ Lowered(all[i]) \notin Visible(to, cc)
                   /\ \E j \in 1..(k + 1) : s[j] = all[i]
        <5>1. Holds(out, all[i]) \/ all[i] = e
          BY <4>2 DEF Holds
        <5>2. CASE Holds(out, all[i])
          BY <2>2, <3>1, <5>2 DEF Holds
        <5>3. CASE all[i] = e
          BY <3>1, <3>3, <5>3 DEF e
        <5> QED
          BY <5>1, <5>2, <5>3
      <4>4. ASSUME NEW j \in 1..(k + 1), s[j] # Nobody, Lowered(s[j]) \notin Visible(to, cc)
            PROVE  \E i \in DOMAIN all : Lowered(all[i]) = Lowered(s[j])
        <5>1. CASE j = k + 1
          <6>1. Holds(all, e)
            BY <4>2
          <6> QED
            BY <5>1, <6>1 DEF Holds, e
        <5>2. CASE j \in 1..k
          <6>1. PICK i \in DOMAIN out : Lowered(out[i]) = Lowered(s[j])
            BY <2>2, <4>4, <5>2
          <6>2. Holds(all, out[i])
            BY <4>2 DEF Holds
          <6> QED
            BY <6>1, <6>2 DEF Holds
        <5> QED
          BY <3>1, <5>1, <5>2
      <4>5. Good(k + 1, all)
        BY <4>3, <4>4
      <4> QED
        BY <4>1, <4>5 DEF e
    <3> QED
      BY <3>2, <3>3
  <2> HIDE DEF Good
  <2> QED
    BY <2>1, <2>3, <2>4, <2>5
<1>7. n \in T
  <2>1. n \in 0..n
    BY <1>1
  <2> HIDE DEF T
  <2> QED
    BY <1>1, <1>5, <1>6, <2>1, Induct
<1> QED
  BY <1>3, <1>7 DEF Y, n, BlindCopies


(* DeriveBcc (parse.go:215-252): of an envelope of bare addresses, as RCPT gives   *)
(* them, exactly the mailboxes in no header are blind copies, whatever capitals    *)
(* and display names stand there.                                               *)
THEOREM DeriveBccOfBare ==
  ASSUME NEW s \in Seq(Entry), NEW to \in Seq(Address), NEW cc \in Seq(Address),
         \A i \in DOMAIN s : Bare(s[i])
  PROVE  Boxes(FlattenSeq(DeriveBcc(s, to, cc))) = Boxes(FlattenSeq(s)) \ Boxes(to \o cc)
<1> DEFINE out == DeriveBcc(s, to, cc)
           Low(b) == <<[box |-> b, caps |-> FALSE, named |-> FALSE]>>
<1>0. BlindCopies(out, s, to, cc)
  BY DeriveBccIs
<1> HIDE DEF out, Low
<1>1. out \in Seq(Entry)
  BY <1>0 DEF BlindCopies
<1>2. DOMAIN s = 1..Len(s)
  OBVIOUS
<1>3. \A i \in DOMAIN out : /\ out[i] # Nobody /\ Lowered(out[i]) \notin Visible(to, cc)
                            /\ \E j \in DOMAIN s : s[j] = out[i]
  BY <1>0, <1>2 DEF BlindCopies
<1>4. \A j \in DOMAIN s : s[j] # Nobody /\ Lowered(s[j]) \notin Visible(to, cc) =>
                            \E i \in DOMAIN out : Lowered(out[i]) = Lowered(s[j])
  BY <1>0, <1>2 DEF BlindCopies
<1>5. ASSUME NEW e \in Entry, Bare(e)
      PROVE  e # Nobody /\ DOMAIN e = {1} /\ Lowered(e) = Low(e[1].box)
  <2>1. DOMAIN e = {1} /\ e[1] \in Address /\ ~e[1].named
    BY <1>5 DEF Bare, Entry
  <2>2. Folded(e[1]) = [box |-> e[1].box, caps |-> FALSE, named |-> FALSE]
    BY <2>1, FoldedIs
  <2>3. Lowered(e) = [i \in {1} |-> Folded(e[1])]
    BY <2>1 DEF Lowered
  <2>4. Lowered(e) = <<Folded(e[1])>>
    BY <2>3
  <2>5. e # Nobody
    <3>1. DOMAIN Nobody = {}
      BY DEF Nobody
    <3> QED
      BY <2>1, <3>1
  <2> QED
    BY <2>1, <2>2, <2>4, <2>5 DEF Low
<1>6. \A b : Low(b) \in Visible(to, cc) <=> b \in Boxes(to \o cc)
  <2> DEFINE all == to \o cc
  <2>1. all \in Seq(Address)
    OBVIOUS
  <2> HIDE DEF all
  <2>2. ASSUME NEW a \in Address PROVE One(Folded(Nameless(a))) = Low(a.box)
    <3>1. Folded(Nameless(a)) = [box |-> a.box, caps |-> FALSE, named |-> FALSE]
      BY NamelessIs, FoldedIs
    <3> QED
      BY <3>1 DEF One, Low
  <2>3. \A b, c : Low(b) = Low(c) => b = c
    BY DEF Low
  <2>4. \A i \in DOMAIN all : all[i] \in Address
    BY <2>1
  <2>5. Visible(to, cc) = {Low(all[i].box) : i \in DOMAIN all}
    <3>1. Visible(to, cc) = {One(Folded(Nameless(all[i]))) : i \in DOMAIN all}
      BY DEF Visible, Range, all
    <3> QED
      BY <2>2, <2>4, <3>1
  <2>6. \A b : b \in Boxes(to \o cc) <=> \E i \in DOMAIN all : all[i].box = b
    BY DEF Boxes, all
  <2> QED
    BY <2>3, <2>5, <2>6
<1>7. \A b : b \in Boxes(FlattenSeq(s)) <=> \E i \in DOMAIN s : s[i][1].box = b
  <2>1. \A i \in DOMAIN s : DOMAIN s[i] = {1}
    BY <1>5
  <2> QED
    BY <2>1, BoxesOfEntries
<1>8. \A i \in DOMAIN out : DOMAIN out[i] = {1} /\ Bare(out[i])
  BY <1>3, <1>5
<1>9. \A b : b \in Boxes(FlattenSeq(out)) <=> \E i \in DOMAIN out : out[i][1].box = b
  <2>1. \A b : b \in Boxes(FlattenSeq(out))
                 <=> \E i \in DOMAIN out : \E j \in DOMAIN out[i] : out[i][j].box = b
    BY <1>1, BoxesOfEntries, Zenon
  <2> QED
    BY <1>8, <2>1, Zenon
<1>10. ASSUME NEW i \in DOMAIN out
       PROVE  out[i][1].box \in Boxes(FlattenSeq(s)) /\ out[i][1].box \notin Boxes(to \o cc)
  BY <1>3, <1>5, <1>6, <1>7
<1>11. ASSUME NEW j \in DOMAIN s, s[j][1].box \notin Boxes(to \o cc)
       PROVE  \E i \in DOMAIN out : out[i][1].box = s[j][1].box
  <2>1. s[j] # Nobody /\ Lowered(s[j]) = Low(s[j][1].box)
    BY <1>5
  <2>2. PICK i \in DOMAIN out : Lowered(out[i]) = Lowered(s[j])
    BY <1>4, <1>6, <1>11, <2>1
  <2>3. Lowered(out[i]) = Low(out[i][1].box)
    BY <1>1, <1>5, <1>8
  <2>4. \A b, c : Low(b) = Low(c) => b = c
    BY DEF Low
  <2> QED
    BY <2>1, <2>2, <2>3, <2>4
<1> QED
  BY <1>7, <1>9, <1>10, <1>11 DEF out

-----------------------------------------------------------------------------
(* Subjects *)

LEMMA MinEq ==
  ASSUME NEW T, T \subseteq Nat, NEW x \in T, \A y \in T : x <= y
  PROVE  Min(T) = x
<1> DEFINE z == Min(T)
<1>1. z \in T /\ \A y \in T : z <= y
  BY MinIs
<1> HIDE DEF z
<1>2. z \in Nat /\ x \in Nat /\ z <= x /\ x <= z
  BY <1>1
<1>3. z = x
  BY <1>2
<1> QED
  BY <1>3 DEF z

LEMMA MaxEq ==
  ASSUME NEW n \in Nat, NEW T, T \subseteq 0..n, NEW x \in T, \A y \in T : y <= x
  PROVE  Max(T) = x
<1> DEFINE z == Max(T)
<1>1. z \in T /\ \A y \in T : y <= z
  BY MaxIs
<1> HIDE DEF z
<1>2. z \in Nat /\ x \in Nat /\ z <= x /\ x <= z
  BY <1>1
<1>3. z = x
  BY <1>2
<1> QED
  BY <1>3 DEF z

(* The places of the words of a subject, and of all that is not white space. *)
Words(s) == {i \in DOMAIN s : s[i] \notin {Marker, Space}}
Ink(s)   == {i \in DOMAIN s : s[i] # Space}

(* A piece of a subject is a subject. *)
LEMMA PieceOf ==
  ASSUME NEW s \in Seq(Token), NEW a \in Nat, NEW b \in Nat, 1 <= a, a <= b, b <= Len(s)
  PROVE  /\ SubSeq(s, a, b) \in Seq(Token) /\ Len(SubSeq(s, a, b)) = b - a + 1
         /\ \A i \in 1..(b - a + 1) : SubSeq(s, a, b)[i] = s[a + i - 1]
<1>1. a \in Int /\ b \in Int /\ \A i \in a..b : s[i] \in Token
  OBVIOUS
<1> HIDE DEF Token
<1>2. /\ SubSeq(s, a, b) \in Seq(Token)
      /\ Len(SubSeq(s, a, b)) = IF a <= b THEN b - a + 1 ELSE 0
      /\ \A i \in 1..(b - a + 1) : SubSeq(s, a, b)[i] = s[a + i - 1]
  BY <1>1, SubSeqProperties
<1> QED
  BY <1>2

(* What is left of a subject goes from its first word to the last of its ink. *)
LEMMA StripIs ==
  ASSUME NEW s \in Seq(Token)
  PROVE  /\ Words(s) = {} => StripReplyPrefix(s) = <<>>
         /\ Words(s) # {} =>
              /\ Min(Words(s)) \in Words(s) /\ Max(Ink(s)) \in Ink(s)
              /\ Min(Words(s)) <= Max(Ink(s))
              /\ StripReplyPrefix(s) = SubSeq(s, Min(Words(s)), Max(Ink(s)))
<1> DEFINE n == Len(s)
           w == Min(Words(s))
           b == Max(Ink(s))
           u == SubSeq(s, w, n)
<1>1. n \in Nat /\ DOMAIN s = 1..n
  OBVIOUS
<1>2. Words(s) = {} => StripReplyPrefix(s) = <<>>
  BY DEF StripReplyPrefix, Words
<1>3. ASSUME Words(s) # {}
      PROVE  /\ w \in Words(s) /\ b \in Ink(s) /\ w <= b
             /\ StripReplyPrefix(s) = SubSeq(s, w, b)
  <2>1. w \in Words(s) /\ \A y \in Words(s) : w <= y
    <3>1. Words(s) \subseteq Nat
      BY <1>1 DEF Words
    <3> QED
      BY <1>3, <3>1, MinIs
  <2>2. w \in Ink(s) /\ Ink(s) \subseteq 0..n
    BY <1>1, <2>1 DEF Words, Ink
  <2>3. b \in Ink(s) /\ \A y \in Ink(s) : y <= b
    <3>1. Ink(s) # {}
      BY <2>2
    <3> QED
      BY <1>1, <2>2, <3>1, MaxIs
  <2>4. w \in 1..n /\ b \in 1..n /\ w <= b /\ s[w] # Space /\ s[b] # Space
    BY <1>1, <2>2, <2>3 DEF Ink
  <2>5. /\ u \in Seq(Token) /\ Len(u) = n - w + 1
        /\ \A i \in 1..(n - w + 1) : u[i] = s[w + i - 1]
    <3> HIDE DEF w, n
    <3>1. w \in Nat /\ 1 <= w /\ w <= n
      BY <1>1, <2>4
    <3>2. n <= Len(s)
      BY <1>1 DEF n
    <3> QED
      BY <1>1, <3>1, <3>2, PieceOf
  <2>6. StripReplyPrefix(s) = TrimSpace(u)
    BY <1>3 DEF StripReplyPrefix, Words
  <2> HIDE DEF n, w, b, u
  <2>7. DOMAIN u = 1..(n - w + 1)
    BY <2>5
  <2>8. Ink(u) \subseteq 0..(n - w + 1) /\ n - w + 1 \in Nat
    BY <1>1, <2>4, <2>7 DEF Ink
  <2>9. \A i \in 1..(n - w + 1) : i \in Ink(u) <=> w + i - 1 \in Ink(s)
    BY <1>1, <2>4, <2>5, <2>7 DEF Ink
  <2>10. 1 \in Ink(u) /\ b - w + 1 \in Ink(u)
    <3>1. 1 \in 1..(n - w + 1) /\ b - w + 1 \in 1..(n - w + 1)
      BY <1>1, <2>4
    <3>2. w + 1 - 1 = w /\ w + (b - w + 1) - 1 = b
      BY <2>4
    <3> QED
      BY <2>2, <2>3, <2>9, <3>1, <3>2
  <2>11. Min(Ink(u)) = 1
    <3>1. Ink(u) \subseteq Nat /\ \A y \in Ink(u) : 1 <= y
      BY <2>7 DEF Ink
    <3> QED
      BY <2>10, <3>1, MinEq
  <2>12. Max(Ink(u)) = b - w + 1
    <3>1. ASSUME NEW y \in Ink(u) PROVE y <= b - w + 1
      <4>1. y \in 1..(n - w + 1)
        BY <2>7 DEF Ink
      <4>2. w + y - 1 <= b
        BY <2>3, <2>9, <4>1
      <4> QED
        BY <2>4, <4>1, <4>2
    <3> QED
      BY <2>8, <2>10, <3>1, MaxEq
  <2>13. TrimSpace(u) = SubSeq(u, 1, b - w + 1)
    <3>1. Ink(u) # {}
      BY <2>10
    <3>2. TrimSpace(u) = SubSeq(u, Min(Ink(u)), Max(Ink(u)))
      BY <3>1 DEF TrimSpace, Ink
    <3> QED
      BY <2>11, <2>12, <3>2
  <2> DEFINE m == b - w + 1
  <2>14. m \in Nat /\ 1 <= m /\ m <= n - w + 1 /\ m - 1 + 1 = m
    BY <1>1, <2>4
  <2>15. /\ SubSeq(u, 1, m) \in Seq(Token) /\ Len(SubSeq(u, 1, m)) = m
         /\ \A i \in 1..m : SubSeq(u, 1, m)[i] = u[1 + i - 1]
    <3> HIDE DEF m
    <3>1. m <= Len(u) /\ 1 \in Nat /\ 1 <= 1
      BY <2>5, <2>14
    <3> QED
      BY <2>5, <2>14, <3>1, PieceOf
  <2>16. /\ SubSeq(s, w, b) \in Seq(Token) /\ Len(SubSeq(s, w, b)) = m
         /\ \A i \in 1..m : SubSeq(s, w, b)[i] = s[w + i - 1]
    <3>1. b <= Len(s) /\ w \in Nat /\ b \in Nat /\ 1 <= w
      BY <2>4 DEF n
    <3> QED
      BY <2>4, <3>1, PieceOf
  <2>17. \A i \in 1..m : SubSeq(u, 1, m)[i] = SubSeq(s, w, b)[i]
    <3>1. ASSUME NEW i \in 1..m PROVE u[1 + i - 1] = s[w + i - 1]
      <4>1. 1 + i - 1 = i /\ i \in 1..(n - w + 1)
        BY <1>1, <2>4, <2>14
      <4> QED
        BY <2>5, <4>1
    <3> QED
      BY <2>15, <2>16, <3>1
  <2>18. SubSeq(u, 1, m) = SubSeq(s, w, b)
    <3> DEFINE x == SubSeq(u, 1, m)
               y == SubSeq(s, w, b)
    <3> HIDE DEF x, y, m
    <3> SUFFICES x = y
      BY DEF x, y
    <3>1. /\ x \in Seq(Token) /\ y \in Seq(Token) /\ Len(x) = Len(y)
          /\ \A i \in 1..Len(x) : x[i] = y[i]
      BY <2>15, <2>16, <2>17 DEF x, y
    <3> HIDE DEF Token
    <3> QED
      BY <3>1, SeqEqual
  <2> QED
    BY <2>1, <2>3, <2>4, <2>6, <2>13, <2>18
<1> QED
  BY <1>2, <1>3

(* Markers put before a subject, and white space taken from around it, change    *)
(* nothing of what is left of it.                                              *)
LEMMA StripShifted ==
  ASSUME NEW s \in Seq(Token), NEW u \in Seq(Token), NEW d \in Int,
         NEW a \in Nat, NEW b \in Nat, 1 <= a, a <= b, b <= Len(s), 1 <= a + d, b + d = Len(u),
         \A i \in a..b : u[i + d] = s[i],
         s[b] # Space, \A i \in 1..Len(s) : i \notin a..b => s[i] = Space,
         \A i \in 1..Len(u) : i < a + d => u[i] \in {Marker, Space}
  PROVE  StripReplyPrefix(u) = StripReplyPrefix(s)
<1>1. DOMAIN s = 1..Len(s) /\ DOMAIN u = 1..Len(u) /\ Len(s) \in Nat /\ Len(u) \in Nat
  OBVIOUS
<1>2. \A i \in Words(s) : i \in a..b /\ i + d \in Words(u)
  BY <1>1 DEF Words
<1>3. \A i \in Words(u) : i - d \in a..b /\ i - d \in Words(s)
  <2>1. ASSUME NEW i \in Words(u) PROVE i - d \in a..b
    <3>1. i \in 1..Len(u) /\ u[i] \notin {Marker, Space}
      BY <1>1 DEF Words
    <3>2. ~(i < a + d)
      BY <3>1
    <3> QED
      BY <3>1, <3>2
  <2>2. ASSUME NEW i \in Words(u) PROVE i - d \in Words(s)
    <3>1. i \in 1..Len(u) /\ u[i] \notin {Marker, Space}
      BY <1>1 DEF Words
    <3>2. i - d \in a..b /\ (i - d) + d = i /\ i - d \in 1..Len(s)
      BY <2>1, <3>1
    <3>3. s[i - d] = u[i]
      BY <3>2
    <3> QED
      BY <1>1, <3>1, <3>2, <3>3 DEF Words
  <2> QED
    BY <2>1, <2>2
<1>4. CASE Words(s) = {}
  <2>1. Words(u) = {}
    BY <1>3, <1>4
  <2> QED
    BY <1>4, <2>1, StripIs
<1>5. CASE Words(s) # {}
  <2> DEFINE w == Min(Words(s))
  <2>1. w \in Words(s) /\ \A y \in Words(s) : w <= y
    <3>1. Words(s) \subseteq Nat
      BY <1>1 DEF Words
    <3> QED
      BY <1>5, <3>1, MinIs
  <2> HIDE DEF w
  <2>2. Words(u) # {} /\ Words(u) \subseteq Nat
    BY <1>1, <1>2, <2>1 DEF Words
  <2>3. Min(Words(u)) = w + d
    <3>1. w + d \in Words(u)
      BY <1>2, <2>1
    <3>2. ASSUME NEW y \in Words(u) PROVE w + d <= y
      <4>1. w <= y - d /\ y \in Nat
        BY <1>3, <2>1, <2>2
      <4>2. w \in Nat
        BY <1>2, <2>1
      <4> QED
        BY <4>1, <4>2
    <3> QED
      BY <2>2, <3>1, <3>2, MinEq
  <2>4. Max(Ink(s)) = b
    <3>1. b \in Ink(s) /\ Ink(s) \subseteq 0..Len(s)
      BY <1>1 DEF Ink
    <3>2. \A y \in Ink(s) : y <= b
      BY <1>1 DEF Ink
    <3> QED
      BY <1>1, <3>1, <3>2, MaxEq
  <2>5. Max(Ink(u)) = b + d
    <3>1. b + d \in Ink(u)
      <4>1. b \in a..b /\ b + d \in 1..Len(u)
        BY <1>1
      <4>2. u[b + d] = s[b]
        BY <4>1
      <4> QED
        BY <1>1, <4>1, <4>2 DEF Ink
    <3>2. Ink(u) \subseteq 0..Len(u) /\ \A y \in Ink(u) : y <= b + d
      BY <1>1 DEF Ink
    <3> QED
      BY <1>1, <3>1, <3>2, MaxEq
  <2>6. StripReplyPrefix(s) = SubSeq(s, w, b) /\ StripReplyPrefix(u) = SubSeq(u, w + d, b + d)
    BY <1>5, <2>2, <2>3, <2>4, <2>5, StripIs DEF w
  <2> DEFINE m == b - w + 1
             x == SubSeq(s, w, b)
             y == SubSeq(u, w + d, b + d)
  <2>7. w \in a..b
    BY <1>2, <2>1
  <2>8. x \in Seq(Token) /\ Len(x) = m /\ \A i \in 1..m : x[i] = s[w + i - 1]
    <3>1. w \in Nat /\ 1 <= w /\ w <= b
      BY <2>7
    <3> QED
      BY <3>1, PieceOf
  <2>9. y \in Seq(Token) /\ Len(y) = m /\ \A i \in 1..m : y[i] = u[w + d + i - 1]
    <3> DEFINE p == w + d
               q == b + d
    <3>1. p \in Nat /\ q \in Nat /\ 1 <= p /\ p <= q /\ q <= Len(u) /\ q - p + 1 = m
      BY <1>1, <2>7
    <3> HIDE DEF p, q, m
    <3>2. /\ SubSeq(u, p, q) \in Seq(Token) /\ Len(SubSeq(u, p, q)) = q - p + 1
          /\ \A i \in 1..(q - p + 1) : SubSeq(u, p, q)[i] = u[p + i - 1]
      BY <3>1, PieceOf
    <3> QED
      BY <3>1, <3>2 DEF p, q
  <2>10. \A i \in 1..m : x[i] = y[i]
    <3>1. ASSUME NEW i \in 1..m PROVE s[w + i - 1] = u[w + d + i - 1]
      <4>1. w + i - 1 \in a..b /\ (w + i - 1) + d = w + d + i - 1
        BY <2>7
      <4> QED
        BY <4>1
    <3> HIDE DEF x, y
    <3> QED
      BY <2>8, <2>9, <3>1
  <2>11. x = y
    <3> HIDE DEF x, y
    <3>1. /\ x \in Seq(Token) /\ y \in Seq(Token) /\ Len(x) = Len(y)
          /\ \A i \in 1..Len(x) : x[i] = y[i]
      BY <2>8, <2>9, <2>10
    <3> HIDE DEF Token
    <3> QED
      BY <3>1, SeqEqual
  <2> QED
    BY <2>6, <2>11
<1> QED
  BY <1>4, <1>5

LEMMA TrimIs ==
  ASSUME NEW s \in Seq(Token)
  PROVE  /\ Ink(s) = {} => TrimSpace(s) = <<>>
         /\ Ink(s) # {} =>
              \E a, b \in 1..Len(s) :
                /\ a <= b /\ s[a] # Space /\ s[b] # Space
                /\ \A i \in 1..Len(s) : i \notin a..b => s[i] = Space
                /\ TrimSpace(s) \in Seq(Token) /\ Len(TrimSpace(s)) = b - a + 1
                /\ \A i \in 1..(b - a + 1) : TrimSpace(s)[i] = s[a + i - 1]
<1>1. Len(s) \in Nat /\ DOMAIN s = 1..Len(s)
  OBVIOUS
<1>2. Ink(s) = {} => TrimSpace(s) = <<>>
  BY DEF TrimSpace, Ink
<1>3. ASSUME Ink(s) # {}
      PROVE  \E a, b \in 1..Len(s) :
                /\ a <= b /\ s[a] # Space /\ s[b] # Space
                /\ \A i \in 1..Len(s) : i \notin a..b => s[i] = Space
                /\ TrimSpace(s) \in Seq(Token) /\ Len(TrimSpace(s)) = b - a + 1
                /\ \A i \in 1..(b - a + 1) : TrimSpace(s)[i] = s[a + i - 1]
  <2> DEFINE a == Min(Ink(s))
             b == Max(Ink(s))
  <2>1. Ink(s) \subseteq Nat /\ Ink(s) \subseteq 0..Len(s)
    BY <1>1 DEF Ink
  <2>2. a \in Ink(s) /\ \A y \in Ink(s) : a <= y
    BY <1>3, <2>1, MinIs
  <2>3. b \in Ink(s) /\ \A y \in Ink(s) : y <= b
    BY <1>1, <1>3, <2>1, MaxIs
  <2>4. TrimSpace(s) = SubSeq(s, a, b)
    BY <1>3 DEF TrimSpace, Ink
  <2> HIDE DEF a, b
  <2>5. a \in 1..Len(s) /\ b \in 1..Len(s) /\ a <= b /\ s[a] # Space /\ s[b] # Space
    BY <1>1, <2>2, <2>3 DEF Ink
  <2>6. \A i \in 1..Len(s) : i \notin a..b => s[i] = Space
    BY <1>1, <2>2, <2>3, <2>5 DEF Ink
  <2>7. /\ SubSeq(s, a, b) \in Seq(Token) /\ Len(SubSeq(s, a, b)) = b - a + 1
        /\ \A i \in 1..(b - a + 1) : SubSeq(s, a, b)[i] = s[a + i - 1]
    <3>1. a \in Nat /\ b \in Nat /\ 1 <= a /\ b <= Len(s)
      BY <2>5
    <3> QED
      BY <2>5, <3>1, PieceOf
  <2> QED
    BY <2>4, <2>5, <2>6, <2>7
<1> QED
  BY <1>2, <1>3

(* ReplySubject (conversation.go:110-121): the subject of a reply has the key of   *)
(* the subject it answers, so that ResolveConversation finds its conversation.    *)
THEOREM ReplySubjectIs ==
  ASSUME NEW s \in Seq(Token)
  PROVE  ReplySubject(s) \in Seq(Token) /\ Key(ReplySubject(s)) = Key(s)
<1> DEFINE t == TrimSpace(s)
           u == ReplySubject(s)
           lead == <<Marker, Space>>
<1>1. <<Marker>> \in Seq(Token) /\ lead \in Seq(Token)
  BY DEF Token
<1>2. SUFFICES u \in Seq(Token) /\ StripReplyPrefix(u) = StripReplyPrefix(s)
  BY DEF Key
<1>3. CASE Ink(s) = {}
  <2>0. t = <<>>
    <3> HIDE DEF t
    <3>1. TrimSpace(s) = <<>>
      BY <1>3, TrimIs
    <3> QED
      BY <3>1 DEF t
  <2>1. u = <<Marker>>
    <3>1. ~HasReplyPrefix(<<>>)
      BY DEF HasReplyPrefix, TrimLeft
    <3> HIDE DEF t
    <3>2. ReplySubject(s) = CASE t = <<>> -> <<Marker>>
                              [] HasReplyPrefix(t) -> t
                              [] OTHER -> <<Marker, Space>> \o t
      BY Zenon DEF ReplySubject, t
    <3> QED
      BY <2>0, <3>1, <3>2
  <2>2. Words(u) = {} /\ Words(s) = {}
    BY <1>3, <2>1 DEF Words, Ink
  <2> QED
    BY <1>1, <2>1, <2>2, StripIs
<1>4. CASE Ink(s) # {}
  <2>1. PICK a \in 1..Len(s), b \in 1..Len(s) :
               /\ a <= b /\ s[a] # Space /\ s[b] # Space
               /\ \A i \in 1..Len(s) : i \notin a..b => s[i] = Space
               /\ t \in Seq(Token) /\ Len(t) = b - a + 1
               /\ \A i \in 1..(b - a + 1) : t[i] = s[a + i - 1]
    BY <1>4, TrimIs
  <2> DEFINE m == b - a + 1
  <2>2. m \in Nat /\ m >= 1 /\ a \in Nat /\ b \in Nat
    BY <2>1
  <2>3. t # <<>>
    BY <2>1, <2>2
  <2>4. u = t \/ u = lead \o t
    BY <2>3 DEF ReplySubject
  <2> HIDE DEF t, u, m
  <2>5. CASE u = t
    <3> DEFINE d == 1 - a
    <3>1. d \in Int /\ a + d = 1 /\ b + d = Len(u)
      BY <2>1, <2>2, <2>5
    <3>2. ASSUME NEW i \in a..b PROVE u[i + d] = s[i]
      <4>1. i + d \in 1..(b - a + 1) /\ a + (i + d) - 1 = i
        BY <2>2
      <4> QED
        BY <2>1, <2>5, <4>1
    <3>3. u \in Seq(Token) /\ 1 <= a /\ b <= Len(s) /\ 1 <= a + d
      BY <2>1, <2>2, <2>5, <3>1
    <3>4. \A i \in 1..Len(u) : i < a + d => u[i] \in {Marker, Space}
      BY <3>1
    <3> HIDE DEF d
    <3>5. StripReplyPrefix(u) = StripReplyPrefix(s)
      BY <2>1, <2>2, <3>1, <3>2, <3>3, <3>4, StripShifted
    <3> QED
      BY <3>3, <3>5
  <2>6. CASE u = lead \o t
    <3> DEFINE d == 3 - a
    <3>1. /\ u \in Seq(Token) /\ Len(u) = m + 2
          /\ \A i \in 1..(m + 2) : u[i] = IF i <= 2 THEN lead[i] ELSE t[i - 2]
      <4>1. Len(lead) = 2 /\ t \in Seq(Token) /\ Len(t) = m
        BY <2>1 DEF m
      <4> HIDE DEF Token, lead
      <4>2. /\ lead \o t \in Seq(Token) /\ Len(lead \o t) = Len(lead) + Len(t)
            /\ \A i \in 1..(Len(lead) + Len(t)) :
                 (lead \o t)[i] = IF i <= Len(lead) THEN lead[i] ELSE t[i - Len(lead)]
        BY <1>1, <4>1, ConcatProperties
      <4>3. Len(lead) + Len(t) = m + 2
        BY <2>2, <4>1
      <4> QED
        BY <2>6, <4>1, <4>2, <4>3
    <3>2. d \in Int /\ a + d = 3 /\ b + d = Len(u)
      BY <2>1, <2>2, <3>1 DEF m
    <3>3. ASSUME NEW i \in a..b PROVE u[i + d] = s[i]
      <4>1. /\ i + d \in 1..(m + 2) /\ ~(i + d <= 2) /\ (i + d) - 2 \in 1..(b - a + 1)
            /\ a + ((i + d) - 2) - 1 = i
        BY <2>2 DEF m
      <4>2. u[i + d] = t[(i + d) - 2]
        BY <3>1, <4>1
      <4> QED
        BY <2>1, <4>1, <4>2
    <3>4. 1 <= a /\ b <= Len(s) /\ 1 <= a + d
      BY <2>1, <2>2, <3>2
    <3>5. ASSUME NEW i \in 1..Len(u), i < a + d PROVE u[i] \in {Marker, Space}
      <4>1. i \in 1..(m + 2) /\ i <= 2 /\ (i = 1 \/ i = 2)
        BY <2>2, <3>1, <3>2, <3>5
      <4>2. lead[1] = Marker /\ lead[2] = Space
        OBVIOUS
      <4>3. u[i] = lead[i]
        BY <3>1, <4>1
      <4> HIDE DEF lead
      <4> QED
        BY <4>1, <4>2, <4>3
    <3> HIDE DEF d
    <3>6. StripReplyPrefix(u) = StripReplyPrefix(s)
      BY <2>1, <2>2, <3>1, <3>2, <3>3, <3>4, <3>5, StripShifted
    <3> QED
      BY <3>1, <3>6
  <2> QED
    BY <2>4, <2>5, <2>6
<1> QED
  BY <1>3, <1>4
-----------------------------------------------------------------------------
(* What composed mail says once it is parsed again *)

(* What the columns of a row that come from the headers may be. *)
Columns ==
  [id : MessageId, inReplyTo : MessageId, references : Seq(MessageId), subject : Seq(Token),
   from : Seq(Address), to : Seq(Address), cc : Seq(Address), replyTo : Seq(Address)]

(* The mailboxes that stand in an entry of their own. *)
AloneIn(entries) == {e[1].box : e \in {e \in Range(entries) : Len(e) = 1}}

(* Ancestors (conversation.go:48-75): the ancestors of a message are the ids its   *)
(* headers name, blanks left out, and no others.                                *)
THEOREM AncestorsAre ==
  ASSUME NEW id \in MessageId, NEW refs \in Seq(MessageId)
  PROVE  LET out == Ancestors(Stripped(id), [i \in DOMAIN refs |-> Stripped(refs[i])])
         IN  /\ out \in Seq(MessageId)
             /\ \A x : Holds(out, x) <=> x # Blank /\ (x = id \/ Holds(refs, x))
<1> DEFINE n == Len(refs)
           before == [i \in DOMAIN refs |-> Stripped(refs[i])]
           all == Append(before, Stripped(id))
<1>1. n \in Nat /\ DOMAIN refs = 1..n /\ \A i \in 1..n : refs[i] \in MessageId
  OBVIOUS
<1>2. \A x \in MessageId : Stripped(x) \in HeaderId /\ Stripped(x).id = x
  BY DEF Stripped, HeaderId
<1>3. before \in Seq(HeaderId) /\ Len(before) = n /\ \A i \in 1..n : before[i].id = refs[i]
  <2>1. before = [i \in 1..n |-> Stripped(refs[i])]
    BY <1>1
  <2>2. \A i \in 1..n : Stripped(refs[i]) \in HeaderId /\ Stripped(refs[i]).id = refs[i]
    BY <1>1, <1>2
  <2> HIDE DEF HeaderId, n
  <2> QED
    BY <1>1, <2>1, <2>2
<1> HIDE DEF before, n
<1>4. /\ all \in Seq(HeaderId) /\ Len(all) = n + 1 /\ all[n + 1] = Stripped(id)
      /\ \A i \in 1..n : all[i] = before[i]
  <2>1. Stripped(id) \in HeaderId
    BY <1>2
  <2> HIDE DEF HeaderId
  <2> QED
    BY <1>1, <1>3, <2>1
<1> HIDE DEF all
<1>5. /\ FoldLeft(AddId, <<>>, all) \in Seq(MessageId)
      /\ \A x : Holds(FoldLeft(AddId, <<>>, all), x)
                  <=> x # Blank /\ \E i \in 1..Len(all) : all[i].id = x
  BY <1>4, AddIdFold
<1>6. \A x : (\E i \in 1..Len(all) : all[i].id = x) <=> x = id \/ Holds(refs, x)
  <2>1. \A i : i \in 1..(n + 1) <=> i \in 1..n \/ i = n + 1
    BY <1>1
  <2>2. all[n + 1].id = id /\ \A i \in 1..n : all[i].id = refs[i]
    BY <1>2, <1>3, <1>4
  <2> QED
    BY <1>1, <1>4, <2>1, <2>2 DEF Holds
<1>7. Ancestors(Stripped(id), [i \in DOMAIN refs |-> Stripped(refs[i])]) = FoldLeft(AddId, <<>>, all)
  BY Zenon DEF Ancestors, all, before
<1> QED
  BY <1>5, <1>6, <1>7, Zenon

(* What is parsed are columns. *)
LEMMA ParseIs ==
  ASSUME NEW h \in Header
  PROVE  Parse(h) \in Columns
<1>1. h.references \in Seq(HeaderId) /\ h.id \in HeaderId /\ h.inReplyTo \in HeaderId
  BY DEF Header
<1>2. ParseReferences(h.references) \in Seq(MessageId)
  BY <1>1, ParseReferencesIs
<1>3. Unbracket(h.id) \in MessageId /\ Unbracket(h.inReplyTo) \in MessageId
  BY <1>1 DEF HeaderId, Unbracket
<1> DEFINE refs == ParseReferences(h.references)
<1> HIDE DEF refs
<1> QED
  BY <1>2, <1>3 DEF Parse, Columns, Header, refs

LEMMA GarbageIs == Garbage \in Columns
<1>1. Blank \in MessageId
  BY DEF MessageId
<1> HIDE DEF Blank
<1> QED
  BY <1>1 DEF Garbage, Columns

(* Build (compose.go:62-166) against Parse (parse.go:80-103): what was composed is *)
(* read as it was written, but for blanks in the chain.                         *)
THEOREM BuildIs ==
  ASSUME NEW m \in Draft
  PROVE  /\ Build(m) \in Header /\ Parse(Build(m)) \in Columns
         /\ Parse(Build(m)).id = m.id /\ Parse(Build(m)).inReplyTo = m.inReplyTo
         /\ \A x : Holds(Parse(Build(m)).references, x) <=> x # Blank /\ Holds(m.references, x)
         /\ Parse(Build(m)).subject = m.subject
         /\ Parse(Build(m)).to = FlattenSeq(m.to) /\ Parse(Build(m)).cc = FlattenSeq(m.cc)
<1> DEFINE refs == [i \in DOMAIN m.references |-> Bracket(m.references[i])]
           n == Len(m.references)
<1>1. /\ m.id \in MessageId /\ m.inReplyTo \in MessageId /\ m.references \in Seq(MessageId)
      /\ m.subject \in Seq(Token) /\ m.from \in Seq(Address) /\ m.replyTo \in Seq(Address)
      /\ m.to \in Seq(Entry) /\ m.cc \in Seq(Entry)
  BY DEF Draft, Entry
<1>2. \A x \in MessageId : Bracket(x) \in HeaderId /\ Bracket(x).id = x
  BY DEF Bracket, HeaderId
<1>3. NoHeader \in HeaderId /\ NoHeader.id = Blank
  BY DEF NoHeader, HeaderId, MessageId
<1>4. refs \in Seq(HeaderId) /\ Len(refs) = n /\ \A i \in 1..n : refs[i].id = m.references[i]
  <2>1. n \in Nat /\ DOMAIN m.references = 1..n /\ \A i \in 1..n : m.references[i] \in MessageId
    BY <1>1
  <2>2. refs = [i \in 1..n |-> Bracket(m.references[i])]
    BY <2>1
  <2>3. \A i \in 1..n : Bracket(m.references[i]) \in HeaderId
                          /\ Bracket(m.references[i]).id = m.references[i]
    BY <1>2, <2>1
  <2> HIDE DEF HeaderId, n
  <2> QED
    BY <2>1, <2>2, <2>3
<1>5. FlattenSeq(m.to) \in Seq(Address) /\ FlattenSeq(m.cc) \in Seq(Address)
  BY <1>1, BoxesOfEntries
<1> DEFINE b == Build(m)
           flatTo == FlattenSeq(m.to)
           flatCc == FlattenSeq(m.cc)
<1> HIDE DEF refs, flatTo, flatCc
<1>6. /\ b.id = Bracket(m.id) /\ b.references = refs /\ b.subject = m.subject
      /\ b.inReplyTo = (IF m.inReplyTo = Blank THEN NoHeader ELSE Bracket(m.inReplyTo))
      /\ b.to = flatTo /\ b.cc = flatCc
  BY DEF Build, refs, flatTo, flatCc
<1>7. b \in Header
  <2>1. Bracket(m.id) \in HeaderId
    BY <1>1, <1>2
  <2>2. (IF m.inReplyTo = Blank THEN NoHeader ELSE Bracket(m.inReplyTo)) \in HeaderId
    BY <1>1, <1>2, <1>3
  <2> HIDE DEF HeaderId, Address, Token
  <2> QED
    BY <1>1, <1>4, <1>5, <2>1, <2>2 DEF Header, Build, refs, flatTo, flatCc
<1> HIDE DEF b
<1>8. Parse(b) \in Columns
  BY <1>7, ParseIs
<1>9. /\ Parse(b).id = Unbracket(b.id) /\ Parse(b).inReplyTo = Unbracket(b.inReplyTo)
      /\ Parse(b).references = ParseReferences(refs) /\ Parse(b).subject = m.subject
      /\ Parse(b).to = flatTo /\ Parse(b).cc = flatCc
  BY <1>6 DEF Parse
<1>10. Unbracket(b.id) = m.id /\ Unbracket(b.inReplyTo) = m.inReplyTo
  BY <1>1, <1>2, <1>3, <1>6 DEF Unbracket
<1>11. \A x : Holds(ParseReferences(refs), x) <=> x # Blank /\ Holds(m.references, x)
  <2>1. \A x : Holds(ParseReferences(refs), x)
                 <=> x # Blank /\ \E i \in 1..Len(refs) : refs[i].id = x
    BY <1>4, ParseReferencesIs
  <2>2. DOMAIN m.references = 1..n
    BY <1>1
  <2> HIDE DEF n
  <2>3. \A x : (\E i \in 1..Len(refs) : refs[i].id = x) <=> Holds(m.references, x)
    BY <1>4, <2>2 DEF Holds
  <2> QED
    BY <2>1, <2>3, Zenon
<1> QED
  BY <1>7, <1>8, <1>9, <1>10, <1>11 DEF b, flatTo, flatCc
-----------------------------------------------------------------------------
(* Drafts *)

LEMMA SingletonIs ==
  ASSUME NEW S, NEW x \in S
  PROVE  <<x>> \in Seq(S) /\ Len(<<x>>) = 1 /\ <<x>>[1] = x
OBVIOUS

(* A list of addresses as entries of one. *)
LEMMA AddressesIs ==
  ASSUME NEW list \in Seq(Address)
  PROVE  Addresses(list) \in Seq(Entry)
<1>1. Addresses(list) = [i \in 1..Len(list) |-> One(list[i])]
  BY DEF Addresses
<1>2. \A i \in 1..Len(list) : One(list[i]) \in Entry
  BY SingletonIs DEF One, Entry
<1>3. Len(list) \in Nat
  OBVIOUS
<1> HIDE DEF Entry
<1> QED
  BY <1>1, <1>2, <1>3

(* What a reply starts from can be edited as a message. *)
LEMMA NewReplyIs ==
  ASSUME NEW p, NEW minted \in MessageId,
         p.id \in MessageId, p.references \in Seq(MessageId), p.subject \in Seq(Token),
         p.to \in Seq(Address), p.from \in Seq(Address), p.replyTo \in Seq(Address),
         p.rcpts \in Seq(Entry)
  PROVE  NewReply(p, minted) \in Draft
<1>1. Chain(p) \in Seq(MessageId)
  BY AncestorsAre DEF Chain
<1>2. ReplySubject(p.subject) \in Seq(Token)
  BY ReplySubjectIs
<1> DEFINE from == CASE p.to # <<>> -> One(p.to[1])
                     [] p.to = <<>> /\ p.rcpts # <<>> -> p.rcpts[1]
                     [] OTHER -> Nobody
           to == Addresses(IF p.replyTo # <<>> THEN p.replyTo ELSE p.from)
<1>3. from \in Entry
  <2>1. CASE p.to # <<>>
    <3>1. p.to[1] \in Address
      BY <2>1
    <3>2. One(p.to[1]) \in Entry
      BY <3>1, SingletonIs DEF One, Entry
    <3> QED
      BY <2>1, <3>2
  <2>2. CASE p.to = <<>> /\ p.rcpts # <<>>
    <3>1. p.rcpts[1] \in Entry
      <4> HIDE DEF Entry
      <4> QED
        BY <2>2
    <3> QED
      BY <2>2, <3>1
  <2>3. CASE p.to = <<>> /\ p.rcpts = <<>>
    BY <2>3 DEF Nobody, Entry
  <2> QED
    BY <2>1, <2>2, <2>3
<1>4. to \in Seq(Entry)
  <2>1. (IF p.replyTo # <<>> THEN p.replyTo ELSE p.from) \in Seq(Address)
    OBVIOUS
  <2> QED
    BY <2>1, AddressesIs
<1>5. Nobody \in Entry /\ <<>> \in Seq(Entry)
  BY DEF Nobody, Entry
<1>6. NewReply(p, minted) =
        [id |-> minted, inReplyTo |-> p.id, references |-> Chain(p),
         subject |-> ReplySubject(p.subject), from |-> from, to |-> to,
         cc |-> <<>>, bcc |-> <<>>, replyTo |-> Nobody, body |-> FALSE]
  BY Zenon DEF NewReply
<1> HIDE DEF from, to, Entry, MessageId, Token, Nobody
<1> QED
  BY <1>1, <1>2, <1>3, <1>4, <1>5, <1>6 DEF Draft

LEMMA NewMailIs ==
  ASSUME NEW minted \in MessageId
  PROVE  NewMail(minted) \in Draft /\ NewMail(minted).references = <<>>
<1>1. Blank \in MessageId /\ Nobody \in Entry
  BY DEF MessageId, Nobody, Entry
<1> HIDE DEF Blank, Nobody, Entry, MessageId, Token
<1> QED
  BY <1>1 DEF NewMail, Draft

(* Filling in a form changes nothing that ties a message to others. *)
LEMMA OverlayIs ==
  ASSUME NEW seed \in Draft, NEW typed \in Request
  PROVE  /\ Overlay(seed, typed) \in Draft
         /\ Overlay(seed, typed).id = seed.id
         /\ Overlay(seed, typed).inReplyTo = seed.inReplyTo
         /\ Overlay(seed, typed).references = seed.references
<1> DEFINE Over(given, otherwise) == IF given # <<>> THEN given ELSE otherwise
           m == Overlay(seed, typed)
<1> HIDE DEF Entry, MessageId, Token
<1>1. m = [seed EXCEPT !.from = Over(typed.from, seed.from), !.to = Over(typed.to, seed.to),
                       !.cc = Over(typed.cc, seed.cc), !.bcc = Over(typed.bcc, seed.bcc),
                       !.replyTo = Over(typed.replyTo, seed.replyTo),
                       !.subject = Over(typed.subject, seed.subject), !.body = typed.body]
  BY DEF Overlay, Draft
<1>2. /\ Over(typed.from, seed.from) \in Entry /\ Over(typed.to, seed.to) \in Seq(Entry)
      /\ Over(typed.cc, seed.cc) \in Seq(Entry) /\ Over(typed.bcc, seed.bcc) \in Seq(Entry)
      /\ Over(typed.replyTo, seed.replyTo) \in Entry
      /\ Over(typed.subject, seed.subject) \in Seq(Token) /\ typed.body \in BOOLEAN
  BY DEF Draft, Request
<1> HIDE DEF Over, m
<1>3. m \in Draft
  BY <1>1, <1>2 DEF Draft
<1>4. m.id = seed.id /\ m.inReplyTo = seed.inReplyTo /\ m.references = seed.references
  BY <1>1 DEF Draft
<1> QED
  BY <1>3, <1>4 DEF m

(* What is posted to /messages is read into the same form. *)
LEMMA InjectedIs ==
  ASSUME NEW minted \in MessageId, NEW typed \in Request
  PROVE  LET m == [NewMail(minted) EXCEPT !.from = typed.from, !.to = typed.to, !.cc = typed.cc,
                                          !.subject = typed.subject, !.body = typed.body]
         IN  m \in Draft /\ m.to = typed.to /\ m.cc = typed.cc
<1> DEFINE seed == NewMail(minted)
           m == [seed EXCEPT !.from = typed.from, !.to = typed.to, !.cc = typed.cc,
                             !.subject = typed.subject, !.body = typed.body]
<1>1. seed \in Draft
  BY NewMailIs
<1> HIDE DEF seed, Entry, MessageId, Token
<1>2. m \in Draft
  BY <1>1 DEF Draft, Request
<1>3. m.to = typed.to /\ m.cc = typed.cc
  BY <1>1 DEF Draft
<1> QED
  BY <1>2, <1>3 DEF seed
-----------------------------------------------------------------------------
(* The envelope of composed mail *)

(* Mailboxes of two lists put together. *)
LEMMA BoxesOfBoth ==
  ASSUME NEW a \in Seq(Address), NEW c \in Seq(Address)
  PROVE  Boxes(a \o c) = Boxes(a) \cup Boxes(c)
<1>1. \A x : Holds(a \o c, x) <=> Holds(a, x) \/ Holds(c, x)
  <2> HIDE DEF Address
  <2> QED
    BY ConcatHolds
<1> DEFINE both == a \o c
<1> HIDE DEF both
<1>2. \A q, v : v \in Boxes(q) <=> \E x : Holds(q, x) /\ x.box = v
  BY DEF Boxes, Holds
<1>3. \A x : Holds(both, x) <=> Holds(a, x) \/ Holds(c, x)
  BY <1>1 DEF both
<1>4. \A v : v \in Boxes(both) <=> v \in Boxes(a) \/ v \in Boxes(c)
  BY <1>2, <1>3
<1> QED
  BY <1>4 DEF both

LEMMA BoxesOfBothEntries ==
  ASSUME NEW a \in Seq(Entry), NEW c \in Seq(Entry)
  PROVE  /\ a \o c \in Seq(Entry)
         /\ Boxes(FlattenSeq(a \o c)) = Boxes(FlattenSeq(a)) \cup Boxes(FlattenSeq(c))
         /\ AloneIn(a \o c) = AloneIn(a) \cup AloneIn(c)
<1> DEFINE both == a \o c
<1>1. both \in Seq(Entry) /\ \A x : Holds(both, x) <=> Holds(a, x) \/ Holds(c, x)
  <2> HIDE DEF Entry
  <2> QED
    BY ConcatHolds
<1> HIDE DEF both
<1>2. ASSUME NEW q \in Seq(Entry)
      PROVE  \A v : v \in Boxes(FlattenSeq(q))
                      <=> \E e : Holds(q, e) /\ \E j \in DOMAIN e : e[j].box = v
  <2>1. \A v : v \in Boxes(FlattenSeq(q))
                 <=> \E i \in DOMAIN q : \E j \in DOMAIN q[i] : q[i][j].box = v
    BY BoxesOfEntries
  <2> QED
    BY <2>1 DEF Holds
<1>3. \A q, v : v \in AloneIn(q) <=> \E e : Holds(q, e) /\ Len(e) = 1 /\ e[1].box = v
  BY DEF AloneIn, Holds, Range
<1>4. \A v : v \in Boxes(FlattenSeq(both))
                <=> v \in Boxes(FlattenSeq(a)) \/ v \in Boxes(FlattenSeq(c))
  BY <1>1, <1>2
<1>5. \A v : v \in AloneIn(both) <=> v \in AloneIn(a) \/ v \in AloneIn(c)
  BY <1>1, <1>3
<1>6. Boxes(FlattenSeq(both)) = Boxes(FlattenSeq(a)) \cup Boxes(FlattenSeq(c))
  BY <1>4
<1>7. AloneIn(both) = AloneIn(a) \cup AloneIn(c)
  BY <1>5
<1> QED
  BY <1>1, <1>6, <1>7 DEF both

(* Whoever stands alone in a list of entries is one of its mailboxes. *)
LEMMA AloneIsThere ==
  ASSUME NEW q \in Seq(Entry)
  PROVE  AloneIn(q) \subseteq Boxes(FlattenSeq(q))
<1>1. ASSUME NEW i \in DOMAIN q, Len(q[i]) = 1 PROVE q[i][1].box \in Boxes(FlattenSeq(q))
  <2>1. 1 \in DOMAIN q[i]
    BY <1>1 DEF Entry
  <2> QED
    BY <2>1, BoxesOfEntries
<1> QED
  BY <1>1 DEF AloneIn, Range

(* Recipients (compose.go:168-190) with DeriveBcc: what is composed goes to         *)
(* everyone who stands in an entry of his own; its blind copies are those of them  *)
(* whom no header names.                                                        *)
THEOREM RecipientsAre ==
  ASSUME NEW m \in Draft
  PROVE  /\ Recipients(m) \in Seq(Entry)
         /\ Boxes(FlattenSeq(Recipients(m))) = AloneIn(m.to \o m.cc \o m.bcc)
         /\ Boxes(FlattenSeq(DeriveBcc(Recipients(m), FlattenSeq(m.to), FlattenSeq(m.cc)))) =
              AloneIn(m.bcc) \ Boxes(FlattenSeq(m.to \o m.cc))
<1> DEFINE all == m.to \o m.cc \o m.bcc
           out == Recipients(m)
<1>1. m.to \in Seq(Entry) /\ m.cc \in Seq(Entry) /\ m.bcc \in Seq(Entry)
  BY DEF Draft
<1>2. /\ m.to \o m.cc \in Seq(Entry)
      /\ Boxes(FlattenSeq(m.to \o m.cc)) = Boxes(FlattenSeq(m.to)) \cup Boxes(FlattenSeq(m.cc))
      /\ AloneIn(m.to \o m.cc) = AloneIn(m.to) \cup AloneIn(m.cc)
  BY <1>1, BoxesOfBothEntries
<1>3. all \in Seq(Entry) /\ AloneIn(all) = AloneIn(m.to \o m.cc) \cup AloneIn(m.bcc)
  BY <1>1, <1>2, BoxesOfBothEntries
<1>4. out = FoldLeft(AddRecipient, <<>>, all)
  BY Zenon DEF Recipients
<1> HIDE DEF all, out
<1>5. /\ out \in Seq(Entry) /\ \A i \in DOMAIN out : Bare(out[i])
      /\ \A b : b \in Boxes(FlattenSeq(out))
                  <=> \E i \in 1..Len(all) : Len(all[i]) = 1 /\ all[i][1].box = b
  BY <1>3, <1>4, AddRecipientFold
<1>6. Boxes(FlattenSeq(out)) = AloneIn(all)
  <2>1. DOMAIN all = 1..Len(all)
    BY <1>3
  <2>2. \A b : b \in AloneIn(all) <=> \E i \in 1..Len(all) : Len(all[i]) = 1 /\ all[i][1].box = b
    BY <2>1 DEF AloneIn, Range
  <2> QED
    BY <1>5, <2>2
<1> DEFINE to == FlattenSeq(m.to)
           cc == FlattenSeq(m.cc)
<1>7. to \in Seq(Address) /\ cc \in Seq(Address)
  BY <1>1, BoxesOfEntries
<1> HIDE DEF to, cc
<1>8. Boxes(FlattenSeq(DeriveBcc(out, to, cc))) = Boxes(FlattenSeq(out)) \ Boxes(to \o cc)
  BY <1>5, <1>7, DeriveBccOfBare
<1>9. Boxes(to \o cc) = Boxes(to) \cup Boxes(cc)
  BY <1>7, BoxesOfBoth
<1>10. AloneIn(m.to) \subseteq Boxes(to) /\ AloneIn(m.cc) \subseteq Boxes(cc)
  BY <1>1, AloneIsThere DEF to, cc
<1>11. Boxes(FlattenSeq(m.to \o m.cc)) = Boxes(to) \cup Boxes(cc)
  BY <1>2 DEF to, cc
<1>12. Boxes(FlattenSeq(DeriveBcc(out, to, cc))) = AloneIn(m.bcc) \ Boxes(FlattenSeq(m.to \o m.cc))
  <2> DEFINE x == Boxes(FlattenSeq(DeriveBcc(out, to, cc)))
             y == Boxes(FlattenSeq(m.to \o m.cc))
  <2>1. x = (AloneIn(m.to) \cup AloneIn(m.cc) \cup AloneIn(m.bcc)) \ y
    BY <1>2, <1>3, <1>6, <1>8, <1>9, <1>11
  <2>2. AloneIn(m.to) \subseteq y /\ AloneIn(m.cc) \subseteq y
    BY <1>10, <1>11
  <2> HIDE DEF x, y
  <2>3. x = AloneIn(m.bcc) \ y
    BY <2>1, <2>2
  <2> QED
    BY <2>3 DEF x, y
<1> QED
  BY <1>5, <1>6, <1>12 DEF to, cc, all, out

(* Posted mail has blind copies only where the comparison with the headers sees   *)
(* a recipient in another spelling.                                            *)
LEMMA PostedCopiesAre ==
  ASSUME NEW to \in Seq(Entry), NEW cc \in Seq(Entry)
  PROVE  LET out == DeriveBcc(to \o cc, FlattenSeq(to), FlattenSeq(cc))
         IN  \A i \in DOMAIN out : Len(out[i]) > 1 \/ out[i][1].named
<1> DEFINE both == to \o cc
           flatTo == FlattenSeq(to)
           flatCc == FlattenSeq(cc)
           flat == flatTo \o flatCc
           out == DeriveBcc(both, flatTo, flatCc)
<1>1. both \in Seq(Entry) /\ \A x : Holds(both, x) <=> Holds(to, x) \/ Holds(cc, x)
  <2> HIDE DEF Entry
  <2> QED
    BY ConcatHolds
<1>2. to \in Seq(Seq(Address)) /\ cc \in Seq(Seq(Address))
  BY DEF Entry
<1>3. /\ flatTo \in Seq(Address)
      /\ \A x : (\E i \in DOMAIN flatTo : flatTo[i] = x)
                  <=> \E j \in DOMAIN to : \E i \in DOMAIN to[j] : to[j][i] = x
  <2> HIDE DEF Address
  <2> QED
    BY <1>2, FlattenElements, Zenon
<1>4. /\ flatCc \in Seq(Address)
      /\ \A x : (\E i \in DOMAIN flatCc : flatCc[i] = x)
                  <=> \E j \in DOMAIN cc : \E i \in DOMAIN cc[j] : cc[j][i] = x
  <2> HIDE DEF Address
  <2> QED
    BY <1>2, FlattenElements, Zenon
<1> HIDE DEF flatTo, flatCc, both
<1>5. \A x : Holds(flat, x) <=> Holds(flatTo, x) \/ Holds(flatCc, x)
  <2> HIDE DEF Address
  <2> QED
    BY <1>3, <1>4, ConcatHolds
<1>6. BlindCopies(out, both, flatTo, flatCc)
  BY <1>1, DeriveBccIs
<1> HIDE DEF out, flat
<1>7. SUFFICES ASSUME NEW i \in DOMAIN out, ~(Len(out[i]) > 1), ~out[i][1].named
               PROVE  FALSE
  BY DEF out, both, flatTo, flatCc
<1> DEFINE e == out[i]
<1>8. e \in Entry /\ e # Nobody /\ Lowered(e) \notin Visible(flatTo, flatCc) /\ Holds(both, e)
  <2>1. \E j \in DOMAIN both : both[j] = e
    BY <1>1, <1>6 DEF BlindCopies
  <2> HIDE DEF e, Entry
  <2>2. e \in Entry
    BY <1>1, <2>1
  <2> QED
    BY <1>6, <2>1, <2>2 DEF BlindCopies, Holds, e
<1> HIDE DEF e
<1>9. e = <<e[1]>> /\ e[1] \in Address /\ ~e[1].named /\ 1 \in DOMAIN e
  <2>1. e \in Seq(Address) /\ Len(e) \in Nat /\ DOMAIN e = 1..Len(e)
    BY <1>8 DEF Entry
  <2>2. Len(e) # 0
    BY <1>8, <2>1 DEF Nobody
  <2>3. ~(Len(e) > 1) /\ ~e[1].named
    BY <1>7 DEF e
  <2>4. Len(e) = 1 /\ DOMAIN e = 1..1
    BY <2>1, <2>2, <2>3
  <2>5. e[1] \in Address /\ 1 \in DOMAIN e
    <3>1. 1 \in 1..1
      OBVIOUS
    <3>2. 1 \in DOMAIN e
      BY <2>4, <3>1, Zenon
    <3> HIDE DEF Address
    <3> QED
      BY <2>1, <3>2
  <2>6. e = <<e[1]>>
    <3> HIDE DEF Address
    <3> QED
      BY <2>1, <2>4, <2>5
  <2> QED
    BY <2>3, <2>5, <2>6
<1>10. Holds(flat, e[1])
  <2>1. Holds(to, e) \/ Holds(cc, e)
    BY <1>1, <1>8, Zenon
  <2>2. Holds(to, e) => Holds(flatTo, e[1])
    BY <1>3, <1>9, Zenon DEF Holds
  <2>3. Holds(cc, e) => Holds(flatCc, e[1])
    BY <1>4, <1>9, Zenon DEF Holds
  <2> QED
    BY <1>5, <2>1, <2>2, <2>3
<1>11. Lowered(e) = One(Folded(Nameless(e[1])))
  <2>1. Nameless(e[1]) = e[1]
    <3>1. Nameless(e[1]) = [box |-> e[1].box, caps |-> e[1].caps, named |-> FALSE]
      BY <1>9, NamelessIs
    <3>2. e[1] = [box |-> e[1].box, caps |-> e[1].caps, named |-> e[1].named] /\ e[1].named = FALSE
      BY <1>9 DEF Address
    <3> QED
      BY <3>1, <3>2
  <2> DEFINE a == e[1]
  <2> HIDE DEF a
  <2>2. e = <<a>> /\ a = e[1]
    BY <1>9 DEF a
  <2>3. Lowered(e) = <<Folded(a)>>
    BY <2>2 DEF Lowered
  <2> QED
    BY <2>1, <2>3 DEF One, a
<1>12. Lowered(e) \in Visible(flatTo, flatCc)
  BY <1>10, <1>11 DEF Visible, flat, Holds, Range
<1> QED
  BY <1>8, <1>12

=============================================================================
