------------------------ MODULE PreserveSplitProofs ------------------------
(***************************************************************************)
(* What the cuts of PreserveSplit do to a history, for every history and   *)
(* every depth: a cut that the count of open calls allows crosses no       *)
(* exchange, and the history a compaction leaves keeps every call together *)
(* with its results, also when the last answer still waits for some.       *)
(***************************************************************************)
EXTENDS PreserveSplit, FiniteSetTheorems, SequenceTheorems, WellFoundedInduction, TLAPS

\* The histories whose answers carry at most k calls.
Contents == {"input", "other", "steer", "notice", "reminder", "nudge", "recovery", "summary",
             "answer", "result"}
Msgs(k) == [role : {"user", "assistant", "tool"}, calls : 0..k, text : Contents]
Histories(k) == Seq(Msgs(k))

\* Paired, but for n results of the last answer that are still to come.
Owed(h, n) ==
    /\ \A i \in 1..Len(h) :
          h[i].role = "assistant" =>
             /\ i + h[i].calls <= Len(h) + n
             /\ \A j \in (i + 1)..(i + h[i].calls) : j <= Len(h) => h[j].role = "tool"
    /\ \A j \in 1..Len(h) :
          h[j].role = "tool" =>
             \E i \in 1..(j - 1) : h[i].role = "assistant" /\ j <= i + h[i].calls
    /\ n > 0 => \E i \in 1..Len(h) : h[i].role = "assistant" /\ i + h[i].calls = Len(h) + n

\* The first message, which a compaction may copy, is the user's, and it is none
\* of those that a step strips.
Opens(h) == Len(h) > 0 => h[1].role = "user" /\ h[1].text \notin {"reminder", "nudge"}

\* g goes on where h ends.
Extends(g, h) == Len(g) >= Len(h) /\ \A i \in 1..Len(h) : g[i] = h[i]

\* No exchange lies on both sides of the cut.
CrossesNothing(h, c) ==
    \A i \in 1..c : h[i].role = "assistant" => i + h[i].calls <= c

----------------------------------------------------------------------------
\* Every nonempty set of naturals has a least element: the induction over
\* data of these proofs.
LEMMA Least ==
    ASSUME NEW T \in SUBSET Nat, T # {}
    PROVE  \E x \in T : \A y \in T : x <= y
<1> DEFINE R == OpToRel(<, Nat)
<1>1. IsWellFoundedOn(R, Nat)
  BY NatLessThanWellFounded
<1> HIDE DEF R
<1>2. PICK x \in T : \A y \in T : ~ (<<y, x>> \in R)
  BY <1>1, WFMin
<1>3. \A y \in T : ~(y < x)
  BY <1>2 DEF R, OpToRel
<1> QED BY <1>3

\* LargestOf is the maximum of a bounded nonempty set of naturals.
LEMMA Largest ==
    ASSUME NEW S \in SUBSET Nat, S # {}, NEW b \in Nat, \A y \in S : y <= b
    PROVE  /\ LargestOf(S) \in S
           /\ \A y \in S : y <= LargestOf(S)
<1> DEFINE U == {x \in Nat : \A y \in S : y <= x}
<1>1. U # {}
  OBVIOUS
<1>2. PICK m \in U : \A y \in U : m <= y
  BY <1>1, Least
<1>3. m \in S
  <2> SUFFICES ASSUME m \notin S PROVE FALSE
    OBVIOUS
  <2>1. \A y \in S : y <= m - 1
    BY <1>2
  <2>2. m - 1 \in Nat
    <3>1. PICK y \in S : TRUE
      OBVIOUS
    <3> QED BY <3>1, <2>1
  <2>3. m - 1 \in U
    BY <2>1, <2>2
  <2> QED BY <2>3, <1>2
<1>4. \E x \in S : \A y \in S : y <= x
  BY <1>2, <1>3
<1> QED BY <1>4 DEF LargestOf

\* What a message of a history is.
LEMMA MessageType ==
    ASSUME NEW k \in Nat, NEW h \in Histories(k), NEW i \in 1..Len(h)
    PROVE  /\ h[i] \in Msgs(k)
           /\ h[i].calls \in 0..k
           /\ h[i].role \in {"user", "assistant", "tool"}
<1>1. h[i] \in Msgs(k)
  BY DEF Histories
<1> QED BY <1>1 DEF Msgs

\* The messages the soul appends.
LEMMA UserType ==
    ASSUME NEW k \in Nat, NEW t \in Contents
    PROVE  User(t) \in Msgs(k) /\ User(t).role = "user" /\ User(t).text = t
<1>1. User(t) = [role |-> "user", calls |-> 0, text |-> t]
  BY DEF User, Message
<1>2. User(t) \in Msgs(k)
  BY <1>1 DEF Msgs
<1> QED BY <1>1, <1>2

LEMMA AssistantType ==
    ASSUME NEW k \in Nat, NEW n \in 0..k
    PROVE  /\ Assistant(n) \in Msgs(k)
           /\ Assistant(n).role = "assistant" /\ Assistant(n).calls = n
<1>1. Assistant(n) = [role |-> "assistant", calls |-> n, text |-> "answer"]
  BY DEF Assistant, Message
<1>2. Assistant(n) \in Msgs(k)
  BY <1>1 DEF Msgs, Contents
<1> QED BY <1>1, <1>2

LEMMA ToolResultType ==
    ASSUME NEW k \in Nat
    PROVE  ToolResult \in Msgs(k) /\ ToolResult.role = "tool"
<1>1. ToolResult = [role |-> "tool", calls |-> 0, text |-> "result"]
  BY DEF ToolResult, Message
<1>2. ToolResult \in Msgs(k)
  BY <1>1 DEF Msgs, Contents
<1> QED BY <1>1, <1>2

\* Paired says that nothing is owed.
LEMMA PairedOwed ==
    ASSUME NEW k \in Nat, NEW h \in Histories(k)
    PROVE  Paired(h) <=> Owed(h, 0)
<1>1. \A i \in 1..Len(h) : h[i].calls \in Nat
  BY MessageType
<1> QED BY <1>1 DEF Paired, Owed

----------------------------------------------------------------------------
\* The calls of the first i messages, and the results among them.
CallsTo(h, i) ==
    {p \in (1..i) \X (1..LargestOf({h[l].calls : l \in 1..i} \union {0})) :
        h[p[1]].role = "assistant" /\ p[2] <= h[p[1]].calls}
ResultsTo(h, i) == {j \in 1..i : h[j].role = "tool"}

\* A result stands for one call before it; so when the two counts agree, every
\* call before the cut has its result there too.
LEMMA BalancedCut ==
    ASSUME NEW k \in Nat, NEW h \in Histories(k), NEW n \in Nat, Owed(h, n),
           NEW c \in 0..Len(h), in_progress(h, c) = 0
    PROVE  CrossesNothing(h, c)
<1> DEFINE S == {h[l].calls : l \in 1..c} \union {0}
           L == LargestOf(S)
           A == CallsTo(h, c)
           T == ResultsTo(h, c)
<1>a. \A i \in 1..Len(h) : h[i].calls \in 0..k
  BY MessageType
<1>1. S \in SUBSET Nat /\ S # {} /\ \A y \in S : y <= k
  BY <1>a
<1>2. L \in Nat /\ \A i \in 1..c : h[i].calls <= L
  BY <1>1, Largest
<1>3. IsFiniteSet(A) /\ Cardinality(A) \in Nat
  <2>1. IsFiniteSet((1..c) \X (1..L))
    <3>1. IsFiniteSet(1..c) /\ IsFiniteSet(1..L)
      BY <1>2, FS_Interval
    <3> QED BY <3>1, FS_Product
  <2>2. A \in SUBSET ((1..c) \X (1..L))
    BY DEF CallsTo
  <2> QED BY <2>1, <2>2, FS_Subset, FS_CardinalityType
<1>4. IsFiniteSet(T) /\ Cardinality(T) \in Nat
  <2>1. IsFiniteSet(1..c)
    BY FS_Interval
  <2>2. T \in SUBSET (1..c)
    BY DEF ResultsTo
  <2> QED BY <2>1, <2>2, FS_Subset, FS_CardinalityType
<1>5. Cardinality(A) = Cardinality(T)
  BY <1>3, <1>4 DEF in_progress, CallsTo, ResultsTo
<1> SUFFICES ASSUME NEW i \in 1..c, h[i].role = "assistant", i + h[i].calls > c
             PROVE  FALSE
  BY <1>a DEF CrossesNothing
<1> DEFINE open == <<i, c + 1 - i>>
           B == A \ {open}
           owner(p) == CHOOSE j \in 1..(p - 1) : h[j].role = "assistant" /\ p <= j + h[j].calls
           f == [p \in T |-> <<owner(p), p - owner(p)>>]
<1>6. open \in A
  <2>1. h[i].calls \in Nat /\ h[i].calls <= L
    BY <1>a, <1>2
  <2> QED BY <2>1, <1>2, SMTT(30) DEF CallsTo
<1>7. Cardinality(B) = Cardinality(A) - 1 /\ IsFiniteSet(B)
  BY <1>3, <1>6, FS_RemoveElement
<1>8. ASSUME NEW p \in T
      PROVE  /\ owner(p) \in 1..(p - 1) /\ p \in 1..c
             /\ h[owner(p)].role = "assistant" /\ p <= owner(p) + h[owner(p)].calls
  <2>1. p \in 1..Len(h) /\ h[p].role = "tool" /\ p \in 1..c
    BY DEF ResultsTo
  <2>2. \E j \in 1..(p - 1) : h[j].role = "assistant" /\ p <= j + h[j].calls
    BY <2>1 DEF Owed
  <2> QED BY <2>1, <2>2
<1> HIDE DEF owner
<1>9. ASSUME NEW p \in T
      PROVE  <<owner(p), p - owner(p)>> \in B
  <2>1. PICK o \in 1..(p - 1) :
           /\ o = owner(p) /\ p \in 1..c
           /\ h[o].role = "assistant" /\ p <= o + h[o].calls
    BY <1>8
  <2>2. h[o].calls \in Nat /\ h[o].calls <= L
    BY <2>1, <1>a, <1>2
  <2>3. <<o, p - o>> \in A
    <3>1. o \in 1..c /\ p - o \in 1..L /\ p - o <= h[o].calls
      BY <2>1, <2>2, <1>2, SMTT(30)
    <3> QED BY <3>1, <2>1 DEF CallsTo
  <2>4. <<o, p - o>> # open
    BY <2>1
  <2> QED BY <2>1, <2>3, <2>4
<1>10. f \in [T -> B]
  BY <1>9
<1>11. ASSUME NEW p \in T, NEW q \in T, f[p] = f[q]
       PROVE  p = q
  <2>1. owner(p) = owner(q) /\ p - owner(p) = q - owner(q)
    BY <1>11
  <2>2. owner(p) \in Nat /\ owner(q) \in Nat /\ p \in Nat /\ q \in Nat
    BY <1>8
  <2> QED BY <2>1, <2>2
<1>12. f \in Injection(T, B)
  <2> HIDE DEF f
  <2> QED BY <1>10, <1>11 DEF Injection, IsInjective
<1>13. Cardinality(T) <= Cardinality(B)
  <2> HIDE DEF f, T, B
  <2> QED BY <1>12, <1>7, FS_Injection
<1> HIDE DEF A, B, T
<1> QED BY <1>3, <1>4, <1>5, <1>7, <1>13

----------------------------------------------------------------------------
\* The tail behind a cut that crosses nothing, with user messages in front.
LEMMA TailOwed ==
    ASSUME NEW k \in Nat, NEW h \in Histories(k), NEW n \in Nat, Owed(h, n),
           NEW c \in 0..Len(h), c < Len(h) \/ n = 0, CrossesNothing(h, c),
           NEW u \in Histories(k), \A i \in 1..Len(u) : u[i].role = "user"
    PROVE  /\ u \o SubSeq(h, c + 1, Len(h)) \in Histories(k)
           /\ Owed(u \o SubSeq(h, c + 1, Len(h)), n)
           /\ Len(u \o SubSeq(h, c + 1, Len(h))) = Len(u) + Len(h) - c
<1> DEFINE t == SubSeq(h, c + 1, Len(h))
           g == u \o t
<1>1. t \in Histories(k) /\ Len(t) = Len(h) - c /\ \A i \in 1..Len(t) : t[i] = h[c + i]
  BY SMTT(30) DEF Histories
<1> HIDE DEF t
<1>t. u \in Seq(Msgs(k)) /\ t \in Seq(Msgs(k)) /\ h \in Seq(Msgs(k))
  BY <1>1 DEF Histories
<1>d. PICK d \in Nat : d = Len(u)
  BY <1>t
<1>l. PICK l \in Nat : l = Len(h)
  BY <1>t
<1>2. /\ g \in Seq(Msgs(k)) /\ Len(g) = d + (l - c)
      /\ \A i \in 1..(d + (l - c)) : g[i] = IF i <= d THEN u[i] ELSE t[i - d]
  <2>1. /\ g \in Seq(Msgs(k)) /\ Len(g) = Len(u) + Len(t)
        /\ \A i \in 1..(Len(u) + Len(t)) : g[i] = IF i <= Len(u) THEN u[i] ELSE t[i - Len(u)]
    BY <1>t, ConcatProperties
  <2>2. Len(t) = l - c /\ Len(u) = d
    BY <1>1, <1>d, <1>l
  <2> HIDE DEF g
  <2> QED BY <2>1, <2>2
<1>3. c \in 0..l /\ \A i \in 1..l : h[i].calls \in Nat
  BY <1>l, MessageType
<1> HIDE DEF g
<1>4. ASSUME NEW i \in (d + 1)..(d + (l - c))
      PROVE  c + i - d \in 1..l /\ g[i] = h[c + i - d]
  <2>1. /\ i - d \in 1..(l - c) /\ c + i - d \in 1..l /\ c + (i - d) = c + i - d
        /\ i \in 1..(d + (l - c)) /\ ~(i <= d)
    BY <1>3
  <2>2. g[i] = t[i - d]
    BY <2>1, <1>2
  <2> QED BY <2>1, <2>2, <1>1, <1>l
<1>5. ASSUME NEW i \in 1..(d + (l - c)), g[i].role # "user"
      PROVE  i \in (d + 1)..(d + (l - c))
  <2>1. i <= d => i \in 1..Len(u) /\ g[i] = u[i]
    BY <1>2, <1>d
  <2>2. ~(i <= d)
    BY <2>1, <1>5
  <2> QED BY <2>2, <1>3
<1>6. ASSUME NEW i \in 1..Len(g), g[i].role = "assistant"
      PROVE  /\ i + g[i].calls <= Len(g) + n
             /\ \A j \in (i + 1)..(i + g[i].calls) : j <= Len(g) => g[j].role = "tool"
  <2>1. i \in (d + 1)..(d + (l - c))
    BY <1>2, <1>5, <1>6
  <2>2. PICK s \in 1..l : s = c + i - d /\ g[i] = h[s]
    BY <2>1, <1>4
  <2>c. PICK q \in Nat : q = h[s].calls
    BY <1>3
  <2>3. /\ s + q <= l + n
        /\ \A j \in (s + 1)..(s + q) : j <= l => h[j].role = "tool"
    BY <2>2, <2>c, <1>6, <1>l DEF Owed
  <2>4. ASSUME NEW j \in (i + 1)..(i + q), j <= d + (l - c)
        PROVE  g[j].role = "tool"
    <3>1. j \in (d + 1)..(d + (l - c))
      BY <2>1, <2>4, <1>3
    <3>2. c + j - d \in (s + 1)..(s + q) /\ c + j - d <= l
      BY <2>1, <2>2, <2>4, <1>3
    <3> QED BY <3>1, <3>2, <2>3, <1>4
  <2>5. i + q <= d + (l - c) + n
    BY <2>1, <2>2, <2>3, <1>3
  <2> QED BY <2>2, <2>c, <2>4, <2>5, <1>2
<1>m. ASSUME NEW s \in (c + 1)..l
      PROVE  /\ s - c + d \in (d + 1)..(d + (l - c)) /\ s - c + d \in 1..(d + (l - c))
             /\ g[s - c + d] = h[s]
  <2>1. /\ s - c + d \in (d + 1)..(d + (l - c)) /\ s - c + d \in 1..(d + (l - c))
        /\ c + (s - c + d) - d = s
    BY <1>3
  <2> QED BY <2>1, <1>4
<1>7. ASSUME NEW j \in 1..Len(g), g[j].role = "tool"
      PROVE  \E i \in 1..(j - 1) : g[i].role = "assistant" /\ j <= i + g[i].calls
  <2>1. j \in (d + 1)..(d + (l - c))
    BY <1>2, <1>5, <1>7
  <2>2. PICK s \in 1..l : s = c + j - d /\ g[j] = h[s]
    BY <2>1, <1>4
  <2>3. PICK o \in 1..(s - 1) : h[o].role = "assistant" /\ s <= o + h[o].calls
    BY <2>2, <1>7, <1>l DEF Owed
  <2>c. PICK q \in Nat : q = h[o].calls
    BY <2>3, <2>2, <1>3
  <2>4. o > c
    <3>1. o \in 1..c => o + q <= c
      BY <2>3, <2>c DEF CrossesNothing
    <3> QED BY <3>1, <2>1, <2>2, <2>3, <2>c, <1>3, SMTT(30)
  <2>5. o \in (c + 1)..l /\ o - c + d \in 1..(j - 1) /\ j <= (o - c + d) + q
    BY <2>1, <2>2, <2>3, <2>4, <2>c, <1>3, SMTT(30)
  <2>6. g[o - c + d] = h[o]
    BY <2>5, <1>m
  <2> QED BY <2>3, <2>5, <2>6, <2>c
<1>8. ASSUME n > 0
      PROVE  \E i \in 1..Len(g) : g[i].role = "assistant" /\ i + g[i].calls = Len(g) + n
  <2>1. PICK o \in 1..l : h[o].role = "assistant" /\ o + h[o].calls = l + n
    BY <1>8, <1>l DEF Owed
  <2>c. PICK q \in Nat : q = h[o].calls
    BY <2>1, <1>3
  <2>2. o > c
    <3>1. o \in 1..c => o + q <= c
      BY <2>1, <2>c DEF CrossesNothing
    <3> QED BY <3>1, <2>1, <2>c, <1>3, <1>8
  <2>e. o + q = l + n
    BY <2>1, <2>c
  <2>3. o \in (c + 1)..l /\ (o - c + d) + q = d + (l - c) + n
    BY <2>2, <2>e, <1>3
  <2>4. g[o - c + d] = h[o] /\ o - c + d \in 1..(d + (l - c))
    BY <2>3, <1>m
  <2> QED BY <2>1, <2>3, <2>4, <2>c, <1>2
<1>9. Owed(g, n)
  BY <1>6, <1>7, <1>8 DEF Owed
<1>10. Len(g) = Len(u) + Len(h) - c
  BY <1>2, <1>d, <1>l
<1> QED BY <1>2, <1>9, <1>10 DEF g, t, Histories

----------------------------------------------------------------------------
\* What a message at the end of a history does to what is owed.

LEMMA ExtendUsers ==
    ASSUME NEW k \in Nat, NEW h \in Histories(k), NEW g \in Histories(k), Extends(g, h),
           Owed(h, 0), \A i \in (Len(h) + 1)..Len(g) : g[i].role = "user"
    PROVE  Owed(g, 0)
<1>l. PICK l \in Nat : l = Len(h)
  BY DEF Histories
<1>m. PICK m \in Nat : m = Len(g) /\ m >= l
  BY <1>l DEF Histories, Extends
<1>1. \A i \in 1..m : g[i].role # "user" => i \in 1..l /\ g[i] = h[i]
  BY <1>l, <1>m DEF Extends
<1>c. \A i \in 1..l : h[i].calls \in Nat
  BY <1>l, MessageType
<1>2. ASSUME NEW i \in 1..m, g[i].role = "assistant"
      PROVE  /\ i + g[i].calls <= m
             /\ \A j \in (i + 1)..(i + g[i].calls) : j <= m => g[j].role = "tool"
  <2>1. i \in 1..l /\ g[i] = h[i]
    BY <1>1, <1>2
  <2>2. PICK q \in Nat : q = h[i].calls
    BY <2>1, <1>c
  <2>3. i + q <= l /\ \A j \in (i + 1)..(i + q) : j <= l => h[j].role = "tool"
    BY <2>1, <2>2, <1>2, <1>l DEF Owed
  <2>4. ASSUME NEW j \in (i + 1)..(i + q) PROVE g[j].role = "tool"
    <3>1. j \in 1..l
      BY <2>1, <2>3
    <3> QED BY <3>1, <2>3, <1>l DEF Extends
  <2> QED BY <2>1, <2>2, <2>3, <2>4, <1>m
<1>3. ASSUME NEW j \in 1..m, g[j].role = "tool"
      PROVE  \E i \in 1..(j - 1) : g[i].role = "assistant" /\ j <= i + g[i].calls
  <2>1. j \in 1..l /\ g[j] = h[j]
    BY <1>1, <1>3
  <2>2. PICK i \in 1..(j - 1) : h[i].role = "assistant" /\ j <= i + h[i].calls
    BY <2>1, <1>3, <1>l DEF Owed
  <2>3. g[i] = h[i]
    BY <2>1, <1>l DEF Extends
  <2> QED BY <2>2, <2>3
<1> QED BY <1>2, <1>3, <1>m DEF Owed

LEMMA ExtendAnswer ==
    ASSUME NEW k \in Nat, NEW h \in Histories(k), NEW g \in Histories(k), Extends(g, h),
           Owed(h, 0), Len(g) = Len(h) + 1, g[Len(g)].role = "assistant"
    PROVE  Owed(g, g[Len(g)].calls)
<1>l. PICK l \in Nat : l = Len(h) /\ Len(g) = l + 1
  BY DEF Histories
<1>1. \A i \in 1..(l + 1) : i # l + 1 => i \in 1..l /\ g[i] = h[i]
  BY <1>l DEF Extends
<1>c. \A i \in 1..l : h[i].calls \in Nat
  BY <1>l, MessageType
<1>n. PICK n \in Nat : n = g[l + 1].calls
  BY <1>l, MessageType
<1>2. ASSUME NEW i \in 1..(l + 1), g[i].role = "assistant"
      PROVE  /\ i + g[i].calls <= l + 1 + n
             /\ \A j \in (i + 1)..(i + g[i].calls) : j <= l + 1 => g[j].role = "tool"
  <2>1. CASE i = l + 1
    BY <2>1, <1>n
  <2>2. CASE i # l + 1
    <3>1. i \in 1..l /\ g[i] = h[i]
      BY <1>1, <2>2
    <3>2. PICK q \in Nat : q = h[i].calls
      BY <3>1, <1>c
    <3>3. i + q <= l /\ \A j \in (i + 1)..(i + q) : j <= l => h[j].role = "tool"
      BY <3>1, <3>2, <1>2, <1>l DEF Owed
    <3>4. ASSUME NEW j \in (i + 1)..(i + q) PROVE g[j].role = "tool"
      <4>1. j \in 1..(l + 1) /\ j # l + 1 /\ j <= l
        BY <3>1, <3>3
      <4> QED BY <4>1, <3>3, <1>1
    <3> QED BY <3>1, <3>2, <3>3, <3>4
  <2> QED BY <2>1, <2>2
<1>3. ASSUME NEW j \in 1..(l + 1), g[j].role = "tool"
      PROVE  \E i \in 1..(j - 1) : g[i].role = "assistant" /\ j <= i + g[i].calls
  <2>1. j \in 1..l /\ g[j] = h[j]
    BY <1>1, <1>3, <1>l
  <2>2. PICK i \in 1..(j - 1) : h[i].role = "assistant" /\ j <= i + h[i].calls
    BY <2>1, <1>3, <1>l DEF Owed
  <2>3. g[i] = h[i]
    BY <2>1, <1>1
  <2> QED BY <2>2, <2>3
<1>4. \E i \in 1..(l + 1) : g[i].role = "assistant" /\ i + g[i].calls = l + 1 + n
  BY <1>l, <1>n
<1> QED BY <1>2, <1>3, <1>4, <1>l, <1>n DEF Owed

LEMMA ExtendResults ==
    ASSUME NEW k \in Nat, NEW h \in Histories(k), NEW g \in Histories(k), Extends(g, h),
           NEW n \in Nat, Owed(h, n), Len(g) <= Len(h) + n,
           \A i \in (Len(h) + 1)..Len(g) : g[i].role = "tool"
    PROVE  /\ n - (Len(g) - Len(h)) \in Nat
           /\ Owed(g, n - (Len(g) - Len(h)))
<1>l. PICK l \in Nat : l = Len(h)
  BY DEF Histories
<1>m. PICK m \in Nat : m = Len(g) /\ m >= l /\ m <= l + n
  BY <1>l DEF Histories, Extends
<1>1. \A i \in 1..l : i \in 1..m /\ g[i] = h[i]
  BY <1>l, <1>m DEF Extends
<1>2. \A i \in 1..m : i > l => g[i].role = "tool"
  BY <1>l, <1>m
<1>c. \A i \in 1..l : h[i].calls \in Nat
  BY <1>l, MessageType
<1>r. n - (m - l) \in Nat
  BY <1>m
<1>3. ASSUME NEW i \in 1..m, g[i].role = "assistant"
      PROVE  /\ i + g[i].calls <= m + (n - (m - l))
             /\ \A j \in (i + 1)..(i + g[i].calls) : j <= m => g[j].role = "tool"
  <2>1. i \in 1..l /\ g[i] = h[i]
    <3>1. i <= l
      BY <1>2, <1>3
    <3> QED BY <3>1, <1>1
  <2>2. PICK q \in Nat : q = h[i].calls
    BY <2>1, <1>c
  <2>3. i + q <= l + n /\ \A j \in (i + 1)..(i + q) : j <= l => h[j].role = "tool"
    BY <2>1, <2>2, <1>3, <1>l DEF Owed
  <2>4. ASSUME NEW j \in (i + 1)..(i + q), j <= m PROVE g[j].role = "tool"
    <3>1. j \in 1..m
      BY <2>4
    <3>2. CASE j <= l
      <4>1. j \in 1..l
        BY <3>2, <3>1
      <4> QED BY <4>1, <2>3, <1>1, <3>2
    <3>3. CASE j > l
      BY <3>1, <3>3, <1>2
    <3> QED BY <3>1, <3>2, <3>3
  <2> QED BY <2>1, <2>2, <2>3, <2>4
<1>4. ASSUME NEW j \in 1..m, g[j].role = "tool"
      PROVE  \E i \in 1..(j - 1) : g[i].role = "assistant" /\ j <= i + g[i].calls
  <2>1. CASE j <= l
    <3>1. j \in 1..l /\ g[j] = h[j]
      BY <2>1, <1>1
    <3>2. PICK i \in 1..(j - 1) : h[i].role = "assistant" /\ j <= i + h[i].calls
      BY <3>1, <1>4, <1>l DEF Owed
    <3>3. g[i] = h[i]
      BY <3>1, <1>1
    <3> QED BY <3>2, <3>3
  <2>2. CASE j > l
    <3>1. n > 0
      BY <2>2, <1>m
    <3>2. PICK o \in 1..l : h[o].role = "assistant" /\ o + h[o].calls = l + n
      BY <3>1, <1>l DEF Owed
    <3>3. g[o] = h[o] /\ o \in 1..(j - 1)
      BY <2>2, <1>1
    <3>4. j <= o + g[o].calls
      BY <3>2, <3>3, <1>m
    <3> QED BY <3>2, <3>3, <3>4
  <2> QED BY <2>1, <2>2
<1>5. ASSUME n - (m - l) > 0
      PROVE  \E i \in 1..m : g[i].role = "assistant" /\ i + g[i].calls = m + (n - (m - l))
  <2>1. n > 0
    BY <1>5, <1>m
  <2>2. PICK o \in 1..l : h[o].role = "assistant" /\ o + h[o].calls = l + n
    BY <2>1, <1>l DEF Owed
  <2>3. g[o] = h[o] /\ o \in 1..m /\ m + (n - (m - l)) = l + n
    BY <1>1
  <2> QED BY <2>2, <2>3
<1>6. Owed(g, n - (m - l))
  BY <1>3, <1>4, <1>5, <1>m DEF Owed
<1> QED BY <1>6, <1>r, <1>l, <1>m

LEMMA ConcatHistory ==
    ASSUME NEW k \in Nat, NEW h \in Histories(k), NEW g \in Histories(k)
    PROVE  /\ h \o g \in Histories(k) /\ Len(h \o g) = Len(h) + Len(g) /\ Extends(h \o g, h)
           /\ \A i \in (Len(h) + 1)..Len(h \o g) :
                 i - Len(h) \in 1..Len(g) /\ (h \o g)[i] = g[i - Len(h)]
<1>t. h \in Seq(Msgs(k)) /\ g \in Seq(Msgs(k))
  BY DEF Histories
<1> DEFINE r == h \o g
<1>1. /\ r \in Seq(Msgs(k)) /\ Len(r) = Len(h) + Len(g)
      /\ \A i \in 1..(Len(h) + Len(g)) : r[i] = IF i <= Len(h) THEN h[i] ELSE g[i - Len(h)]
  BY <1>t, ConcatProperties
<1> HIDE DEF r
<1>2. PICK l \in Nat : l = Len(h)
  BY <1>t
<1>3. PICK m \in Nat : m = Len(g)
  BY <1>t
<1>4. \A i \in 1..(l + m) : r[i] = IF i <= l THEN h[i] ELSE g[i - l]
  BY <1>1, <1>2, <1>3
<1>5. Len(r) = l + m
  BY <1>1, <1>2, <1>3
<1>6. Extends(r, h)
  BY <1>2, <1>4, <1>5 DEF Extends
<1>7. \A i \in (l + 1)..(l + m) : i - l \in 1..m /\ r[i] = g[i - l]
  BY <1>4
<1> QED BY <1>1, <1>2, <1>3, <1>5, <1>6, <1>7 DEF r, Histories

LEMMA AppendHistory ==
    ASSUME NEW k \in Nat, NEW h \in Histories(k), NEW e \in Msgs(k)
    PROVE  /\ Append(h, e) \in Histories(k) /\ Len(Append(h, e)) = Len(h) + 1
           /\ Extends(Append(h, e), h) /\ Append(h, e)[Len(h) + 1] = e
<1>1. h \in Seq(Msgs(k)) /\ Len(h) \in Nat
  BY DEF Histories
<1> QED BY <1>1 DEF Histories, Extends

\* A history that opens with the user's message goes on doing so.
LEMMA ExtendOpens ==
    ASSUME NEW k \in Nat, NEW h \in Histories(k), NEW g \in Histories(k), Extends(g, h),
           Opens(h), Len(h) > 0
    PROVE  Opens(g) /\ Len(g) > 0
<1>1. Len(h) \in Nat /\ Len(g) \in Nat
  BY DEF Histories
<1> QED BY <1>1 DEF Opens, Extends

----------------------------------------------------------------------------
\* The boundary.

LEMMA NothingOpenAtStart ==
    ASSUME NEW h
    PROVE  in_progress(h, 0) = 0
<1> DEFINE L == LargestOf({h[l].calls : l \in 1..0} \union {0})
<1>1. {p \in (1..0) \X (1..L) : h[p[1]].role = "assistant" /\ p[2] <= h[p[1]].calls} = {}
  OBVIOUS
<1>2. {j \in 1..0 : h[j].role = "tool"} = {}
  OBVIOUS
<1>3. Cardinality({}) = 0
  BY FS_EmptySet
<1> HIDE DEF L
<1> QED BY <1>1, <1>2, <1>3 DEF in_progress, L

\* A cut below the end that a set of balanced cuts holds has nothing open.
LEMMA BelowTheEnd ==
    ASSUME NEW k \in Nat, NEW h \in Histories(k), NEW S \in SUBSET balanced_cut_indices(h),
           NEW c \in Nat, c < Len(h), 0 \in S, \A x \in S : x <= c
    PROVE  /\ LargestOf(S) \in S /\ LargestOf(S) \in 0..c
           /\ in_progress(h, LargestOf(S)) = 0
<1>1. Len(h) \in Nat
  BY DEF Histories
<1>2. S \in SUBSET Nat
  BY <1>1 DEF balanced_cut_indices
<1>3. LargestOf(S) \in S
  BY <1>2, Largest
<1>4. PICK x \in S : x = LargestOf(S)
  BY <1>3
<1>5. x \in balanced_cut_indices(h) /\ x \in Nat /\ x <= c
  BY <1>2
<1>6. x # Len(h)
  BY <1>1, <1>5
<1>7. in_progress(h, x) = 0
  BY <1>5, <1>6 DEF balanced_cut_indices
<1> QED BY <1>4, <1>5, <1>7

\* What a split that compacts is: its boundary is inside the history, crosses no
\* open call and leaves the voices it was asked for behind it; the copy of the
\* first message takes the place of one that is compacted; and the fallback of
\* the recut is never needed.
LEMMA SplitIsSound ==
    ASSUME NEW k \in Nat, NEW h \in Histories(k), NEW depth \in Nat,
           resolve_preserve_split(h, depth).compact
    PROVE  LET s == resolve_preserve_split(h, depth)
           IN  /\ s.start \in 1..(Len(h) - 1) /\ in_progress(h, s.start) = 0
               /\ s.keep_first => s.start > 1
               /\ ~s.fallback
               /\ \E c \in s.start..(Len(h) - 1) : c \in depth_cuts(h, depth)
<1> DEFINE r == resolve_preserve_split(h, depth)
           c == CHOOSE x \in depth_cuts(h, depth) : TRUE
           b == snap_left(h, c)
           s == split_at(h, b)
<1>l. PICK l \in Nat : l = Len(h)
  BY DEF Histories
<1>1. depth_cuts(h, depth) # {} /\ r = s /\ s.compact /\ s.start > 0
  <2>1. ~Nothing.compact
    BY DEF Nothing
  <2> HIDE DEF s, c
  <2> QED BY <2>1 DEF resolve_preserve_split, s, b, c
<1>2. c \in depth_cuts(h, depth) /\ c \in 0..(l - 1)
  <2>1. c \in depth_cuts(h, depth)
    BY <1>1
  <2> QED BY <2>1, <1>l DEF depth_cuts
<1> HIDE DEF c
<1>3. 0 \in balanced_cut_indices(h)
  BY <1>l, NothingOpenAtStart DEF balanced_cut_indices
<1>4. b \in balanced_cut_indices(h) /\ b \in 0..c /\ in_progress(h, b) = 0
  <2> DEFINE S == {x \in balanced_cut_indices(h) : x <= c}
  <2>1. 0 \in S /\ \A x \in S : x <= c
    BY <1>2, <1>3
  <2>2. S \in SUBSET balanced_cut_indices(h)
    OBVIOUS
  <2>3. c \in Nat /\ c < Len(h)
    BY <1>2, <1>l
  <2> HIDE DEF S
  <2>4. LargestOf(S) \in S /\ LargestOf(S) \in 0..c /\ in_progress(h, LargestOf(S)) = 0
    BY <2>1, <2>2, <2>3, BelowTheEnd
  <2> QED BY <2>2, <2>4 DEF snap_left, S
<1> HIDE DEF b
<1> DEFINE keep == keep_first_message(h, b)
           len == IF keep /\ b > 0 THEN b - 1 ELSE b
<1>5. CASE len \notin balanced_cut_indices(h)
  <2> DEFINE S == {x \in balanced_cut_indices(h) : x < b}
  <2>1. b > 0
    BY <1>4, <1>5
  <2>2. 0 \in S /\ (\A x \in S : x <= b) /\ b \in Nat /\ b < Len(h)
    BY <2>1, <1>2, <1>3, <1>4, <1>l DEF balanced_cut_indices
  <2>3. S \in SUBSET balanced_cut_indices(h)
    OBVIOUS
  <2>4. s = recut(h, b)
    BY <1>5 DEF split_at
  <2>a. recut(h, b) = [compact |-> TRUE, start |-> LargestOf(S), keep_first |-> FALSE,
                       fallback |-> FALSE]
    <3>1. S # {} /\ (S = {}) = FALSE
      BY <2>2
    <3> QED BY <3>1 DEF recut
  <2>5. s.start = LargestOf(S) /\ s.keep_first = FALSE /\ s.fallback = FALSE
    BY <2>4, <2>a
  <2> HIDE DEF S
  <2>6. LargestOf(S) \in S /\ LargestOf(S) \in 0..b /\ in_progress(h, LargestOf(S)) = 0
    BY <2>2, <2>3, BelowTheEnd
  <2> HIDE DEF s
  <2>7. s.start \in 1..b /\ in_progress(h, s.start) = 0
    BY <2>5, <2>6, <1>1
  <2> QED BY <2>5, <2>7, <1>1, <1>2, <1>4, <1>l
<1>6. CASE len \in balanced_cut_indices(h)
  <2>1. s = [compact |-> len > 0, start |-> b, keep_first |-> keep, fallback |-> FALSE]
    BY <1>6 DEF split_at
  <2>2. len > 0 /\ s.start = b /\ (s.keep_first <=> keep) /\ ~s.fallback
    <3> HIDE DEF s, keep, len
    <3>1. s.start = b /\ ~s.fallback
      BY <2>1
    <3>2. s.compact = (len > 0)
      BY <2>1, Zenon
    <3>3. s.keep_first = keep
      BY <2>1, Zenon
    <3> QED BY <3>1, <3>2, <3>3, <1>1
  <2>3. b > 0 /\ (keep => b > 1)
    BY <2>2, <1>4
  <2> HIDE DEF s, keep, len
  <2> QED BY <2>2, <2>3, <1>1, <1>2, <1>4, <1>l
<1> QED BY <1>5, <1>6

\* What a compaction of soul_apply_preserve_split leaves of any history and for any
\* depth: a history whose calls have their results but for the n that were still
\* to come, opened by the user's part, and no longer than it was.
THEOREM CompactedHistory ==
    ASSUME NEW k \in Nat, NEW h \in Histories(k), NEW n \in Nat, Owed(h, n), Opens(h),
           NEW depth \in Nat, resolve_preserve_split(h, depth).compact
    PROVE  LET g == soul_apply_preserve_split(h, resolve_preserve_split(h, depth))
           IN  /\ g \in Histories(k) /\ Owed(g, n) /\ Opens(g)
               /\ Len(g) > 0 /\ Len(g) <= Len(h)
<1>l. PICK l \in Nat : l = Len(h)
  BY DEF Histories
<1>s. PICK s : s = resolve_preserve_split(h, depth)
  OBVIOUS
<1>1. s.start \in 1..(l - 1) /\ in_progress(h, s.start) = 0 /\ (s.keep_first => s.start > 1)
  BY <1>s, <1>l, SplitIsSound
<1>2. CrossesNothing(h, s.start)
  BY <1>1, <1>l, BalancedCut
<1>3. PICK m \in Msgs(k) : m = User("summary") /\ m.role = "user" /\ m.text = "summary"
  BY UserType DEF Contents
<1>4. h[1] \in Msgs(k) /\ h[1].role = "user"
  BY <1>1, <1>l, MessageType DEF Opens
<1>b. PICK b \in 1..(l - 1) : b = s.start
  BY <1>1
<1> DEFINE u == <<m>> \o (IF s.keep_first THEN <<h[1]>> ELSE <<>>)
           g == u \o SubSeq(h, b + 1, Len(h))
<1>5. /\ u \in Seq(Msgs(k)) /\ Len(u) = (IF s.keep_first THEN 2 ELSE 1)
      /\ u[1] = m /\ \A i \in 1..Len(u) : u[i].role = "user"
  <2>1. CASE s.keep_first
    <3>1. u = <<m>> \o <<h[1]>>
      BY <2>1
    <3>2. <<m>> \in Seq(Msgs(k)) /\ <<h[1]>> \in Seq(Msgs(k))
      BY <1>4
    <3>3. Len(<<m>>) = 1 /\ Len(<<h[1]>>) = 1 /\ <<m>>[1] = m /\ <<h[1]>>[1] = h[1]
      OBVIOUS
    <3> HIDE DEF u
    <3>4. u \in Seq(Msgs(k)) /\ Len(u) = 2
      BY <3>1, <3>2, <3>3, ConcatProperties
    <3>5. u[1] = m /\ u[2] = h[1]
      BY <3>1, <3>2, <3>3, ConcatProperties
    <3> QED BY <3>4, <3>5, <2>1, <1>3, <1>4
  <2>2. CASE ~s.keep_first
    <3>1. u = <<m>>
      BY <2>2, <1>3
    <3> HIDE DEF u
    <3> QED BY <3>1, <2>2, <1>3
  <2> QED BY <2>1, <2>2
<1> HIDE DEF u
<1>6. g \in Histories(k) /\ Owed(g, n) /\ Len(g) = Len(u) + Len(h) - b
  <2>1. u \in Histories(k) /\ b \in 0..Len(h) /\ b < Len(h)
    BY <1>5, <1>l DEF Histories
  <2>2. CrossesNothing(h, b)
    BY <1>2, <1>b
  <2>3. \A i \in 1..Len(u) : u[i].role = "user"
    BY <1>5
  <2> QED BY <2>1, <2>2, <2>3, TailOwed, SMTT(30)
<1>7. Len(g) > 0 /\ Len(g) <= Len(h)
  <2> HIDE DEF g
  <2> QED BY <1>1, <1>b, <1>5, <1>6, <1>l
<1>8. g[1] = u[1]
  <2>1. SubSeq(h, b + 1, Len(h)) \in Seq(Msgs(k))
    BY <1>l DEF Histories
  <2>2. 1 \in 1..Len(u)
    BY <1>5
  <2> QED BY <2>1, <2>2, <1>5, ConcatProperties
<1>9. Opens(g)
  <2> HIDE DEF g
  <2> QED BY <1>3, <1>5, <1>8 DEF Opens
<1>10. g = soul_apply_preserve_split(h, resolve_preserve_split(h, depth))
  BY <1>s, <1>b, <1>3 DEF u, soul_apply_preserve_split
<1> QED BY <1>6, <1>7, <1>9, <1>10

\* A compaction leaves the newest depth user and assistant messages alone, for any
\* history and any depth: neither snap_left nor recut moves the cut forward.
THEOREM CompactionKeepsVoices ==
    ASSUME NEW k \in Nat, NEW h \in Histories(k), NEW depth \in Nat,
           resolve_preserve_split(h, depth).compact
    PROVE  LET s == resolve_preserve_split(h, depth)
           IN  Voices(SubSeq(h, s.start + 1, Len(h))) >= depth
<1>l. PICK l \in Nat : l = Len(h)
  BY DEF Histories
<1>s. PICK s : s = resolve_preserve_split(h, depth)
  OBVIOUS
<1>1. /\ s.start \in 1..(l - 1)
      /\ \E c \in s.start..(l - 1) : c \in depth_cuts(h, depth)
  BY <1>s, <1>l, SplitIsSound
<1>2. PICK b \in 1..(l - 1) : b = s.start
  BY <1>1
<1>3. PICK c \in b..(l - 1) : c \in depth_cuts(h, depth)
  BY <1>1, <1>2
<1> DEFINE t == SubSeq(h, b + 1, Len(h))
           A == {j \in (c + 1)..l : is_user_or_assistant(h[j])}
           B == {i \in 1..Len(t) : is_user_or_assistant(t[i])}
           f == [j \in A |-> j - b]
<1>4. Cardinality(A) = depth
  BY <1>3, <1>l DEF depth_cuts
<1>5. Len(t) = l - b /\ \A i \in 1..(l - b) : t[i] = h[b + i]
  BY <1>l DEF Histories
<1> HIDE DEF t
<1>6. IsFiniteSet(B)
  <2>1. IsFiniteSet(1..Len(t))
    BY <1>5, FS_Interval
  <2> QED BY <2>1, FS_Subset
<1>7. ASSUME NEW j \in A PROVE j - b \in B
  <2>1. j - b \in 1..(l - b) /\ b + (j - b) = j
    BY <1>2, <1>3, <1>l
  <2>2. t[j - b] = h[j]
    BY <2>1, <1>5
  <2> QED BY <2>1, <2>2, <1>5
<1>8. f \in Injection(A, B)
  <2>1. f \in [A -> B]
    BY <1>7
  <2>2. ASSUME NEW i \in A, NEW j \in A, f[i] = f[j] PROVE i = j
    BY <2>2
  <2> HIDE DEF f
  <2> QED BY <2>1, <2>2 DEF Injection, IsInjective
<1>9. Cardinality(A) <= Cardinality(B) /\ Cardinality(B) \in Nat
  <2> HIDE DEF A, B, f
  <2> QED BY <1>6, <1>8, FS_Injection, FS_CardinalityType
<1>10. Voices(t) >= depth
  <2>1. Voices(t) = Cardinality(B)
    BY DEF Voices
  <2> HIDE DEF A, B
  <2> QED BY <2>1, <1>4, <1>9
<1> QED BY <1>s, <1>2, <1>10 DEF t
============================================================================
