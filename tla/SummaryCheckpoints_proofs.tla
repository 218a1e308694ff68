---------------------- MODULE SummaryCheckpoints_proofs ----------------------
(***************************************************************************)
(* Every summary covers exactly the messages its checkpoint is known by,   *)
(* the longest one that fits is applied, and what leaves the compactions   *)
(* tells the whole conversation: for any number of requests, any           *)
(* conversations and any limits.                                           *)
(*                                                                         *)
(* The invariant says of a generation under way that the checkpoint it     *)
(* continues covers the beginning of this request's conversation and ends  *)
(* before the safe boundary: that is what makes the two slices meet.  What *)
(* is applied fits the request's messages, which stay what they were when  *)
(* it arrived; so the summary, put back in its place, gives them again.    *)
(* That the longest fitting row is loaded at all although loading has a    *)
(* limit follows from the order of loading and the finiteness of the store.*)
(*                                                                         *)
(* The tool protocol of what is sent needs more: a checkpoint made where   *)
(* one conversation may be cut is put into another one.  If results follow *)
(* their calls, a call tells where its exchange ends, so the cut is good   *)
(* for every conversation with the same beginning (BoundaryCuttable).      *)
(***************************************************************************)
EXTENDS SummaryCheckpoints, SequenceTheorems, FiniteSetTheorems,
        WellFoundedInduction, TLAPS

Told == {SystemOf(r) : r \in Requests} \cup UNION {{h[i] : i \in DOMAIN h} : h \in Histories}
Sound == {c \in [prefix : Seq(Told), covers : Seq(Told)] : c.covers = c.prefix}

\* A conversation with its system messages, as far as the proof needs it.
HasSystemPrefix(ms) == SystemPrefix(ms) \in 0..Len(ms)

Begins(c, ms) ==
  /\ SystemPrefix(ms) + Length(c) <= SafeBoundary(ms, TailMessages)
  /\ c.prefix = SubSeq(ms, SystemPrefix(ms) + 1, SystemPrefix(ms) + Length(c))

TypeInv ==
  /\ store \in Seq(Sound) /\ late \subseteq Sound
  /\ pc \in [Requests -> Points]
  /\ messages \in [Requests -> Seq(Told)]
  /\ made \in [Requests -> Sound]
  /\ previous \in [Requests -> SUBSET Sound]
  /\ chosen \in [Requests -> SUBSET Sound]

MakesSummary(r) == pc[r] \in {"wanting", "generating", "saving"}

GenerationInv ==
  \A r \in Requests :
    /\ MakesSummary(r) => HasSystemPrefix(messages[r]) /\ ActiveCall(messages[r]) = 0
    /\ pc[r] \notin {"generating", "saving"} => previous[r] = {}
    /\ \A c \in previous[r] : Begins(c, messages[r])

Inv == TypeInv /\ GenerationInv

-----------------------------------------------------------------------------
\* The conversation of a request starts with its one system message.
LEMMA ArrivedMessages ==
  ASSUME NEW r \in Requests, NEW h \in Histories
  PROVE  /\ <<SystemOf(r)>> \o h \in Seq(Told)
         /\ HasSystemPrefix(<<SystemOf(r)>> \o h)
<1> DEFINE ms == <<SystemOf(r)>> \o h
<1>1. h \in Seq({h[i] : i \in DOMAIN h}) /\ \A i \in DOMAIN h : h[i].role # "system"
  BY CheckpointAssumption
<1>2. {h[i] : i \in DOMAIN h} \subseteq Told BY DEF Told
<1>3. h \in Seq(Told) BY <1>1, <1>2, SeqMonotonic
<1>4. SystemOf(r) \in Told BY DEF Told
<1>5. ms \in Seq(Told) BY <1>3, <1>4
<1>6. Len(ms) = Len(h) + 1 /\ ms[1] = SystemOf(r) /\ (Len(h) > 0 => ms[2] = h[1])
  BY <1>3, <1>4
<1>7. ms[1].role = "system"
  <2>1. SystemOf(r).role = "system" BY DEF SystemOf, Message
  <2> QED BY <1>6, <2>1
<1>8. 1 < Len(ms) => ms[2].role # "system"
  <2>1. Len(h) > 0 => 1 \in DOMAIN h BY <1>3
  <2> QED BY <1>1, <1>3, <1>6, <2>1
<1>9. /\ 1 \in 0..Len(ms)
      /\ \A i \in 1..1 : ms[i].role = "system"
      /\ 1 < Len(ms) => ms[1 + 1].role # "system"
  BY <1>3, <1>6, <1>7, <1>8
<1>10. HasSystemPrefix(ms)
  <2> DEFINE P(n) == /\ \A i \in 1..n : ms[i].role = "system"
                     /\ n < Len(ms) => ms[n + 1].role # "system"
  <2> HIDE DEF ms
  <2>1. \E n \in 0..Len(ms) : P(n) BY <1>9
  <2>2. (CHOOSE n \in 0..Len(ms) : P(n)) \in 0..Len(ms) BY <2>1, Zenon
  <2> QED BY <2>2 DEF HasSystemPrefix, SystemPrefix
<1> QED BY <1>5, <1>10

\* Some number of a set of the first n is the last one.
LEMMA LastOfSome ==
  ASSUME NEW n \in Nat, NEW S \in SUBSET (1 .. n), S # {}
  PROVE  \E i \in S : \A j \in S : j <= i
<1> DEFINE T == {n - i : i \in S}
<1>1. T \subseteq Nat /\ T # {}
  <2>1. \A i \in S : i \in 1 .. n OBVIOUS
  <2>2. \A i \in S : n - i \in Nat BY <2>1
  <2>3. PICK i \in S : TRUE OBVIOUS
  <2>4. n - i \in T OBVIOUS
  <2> QED BY <2>2, <2>4
<1>2. \E x \in T : \A y \in T : ~(<<y, x>> \in OpToRel(<, Nat))
  BY <1>1, WFMin, NatLessThanWellFounded
<1>3. PICK x \in T : \A y \in T : ~(y < x)
  BY <1>1, <1>2 DEF OpToRel
<1>4. PICK i \in S : x = n - i OBVIOUS
<1>5. ASSUME NEW j \in S
      PROVE  j <= i
  <2>1. n - j \in T OBVIOUS
  <2>2. ~(n - j < x) BY <1>3, <2>1
  <2>3. i \in Int /\ j \in Int OBVIOUS
  <2> HIDE DEF T
  <2> QED BY <1>4, <2>2, <2>3
<1> QED BY <1>5

\* The call to continue, and the message it answers, are in the conversation.
LEMMA ActiveWithin ==
  ASSUME NEW S, NEW ms \in Seq(S)
  PROVE  /\ ActiveCall(ms) \in 0 .. Len(ms)
         /\ \A n \in Nat : LatestUser(ms, n) \in 0 .. n
<1>1. ActiveCall(ms) \in 0 .. Len(ms)
  <2> DEFINE active == {g \in ToolGroups(ms) : g[2] = Len(ms)}
  <2>1. \A g \in active : g[1] \in 1 .. Len(ms) BY DEF ToolGroups
  <2>2. CASE active = {} BY <2>2 DEF ActiveCall
  <2>3. CASE active # {}
    <3>1. (CHOOSE g \in active : TRUE) \in active BY <2>3
    <3>2. ActiveCall(ms) = (CHOOSE g \in active : TRUE)[1] BY <2>3 DEF ActiveCall
    <3> QED BY <2>1, <3>1, <3>2
  <2> QED BY <2>2, <2>3
<1>2. ASSUME NEW n \in Nat
      PROVE  LatestUser(ms, n) \in 0 .. n
  <2> DEFINE users == {i \in 1 .. n : ms[i].role = "user"}
             Last(i) == \A j \in users : j <= i
  <2>1. CASE users = {} BY <2>1 DEF LatestUser
  <2>2. CASE users # {}
    <3>1. \E f \in users : Last(f) BY <2>2, LastOfSome
    <3>2. (CHOOSE i \in users : Last(i)) \in users BY <3>1
    <3>3. LatestUser(ms, n) = CHOOSE i \in users : Last(i) BY <2>2 DEF LatestUser
    <3> QED BY <3>2, <3>3
  <2> QED BY <2>1, <2>2
<1> QED BY <1>1, <1>2

\* The safe boundary is within the conversation.
LEMMA BoundaryWithin ==
  ASSUME NEW ms \in Seq(Told), HasSystemPrefix(ms)
  PROVE  /\ SafeBoundary(ms, TailMessages) \in Int
         /\ SafeBoundary(ms, TailMessages) <= Len(ms)
<1>1. /\ SystemPrefix(ms) \in 0..Len(ms) /\ Len(ms) \in Nat /\ TailMessages \in Nat
      /\ ActiveCall(ms) \in 0..Len(ms) /\ LatestUser(ms, ActiveCall(ms)) \in Int
  <2>1. ActiveCall(ms) \in 0..Len(ms) BY ActiveWithin
  <2>2. ActiveCall(ms) \in Nat BY <2>1
  <2>3. LatestUser(ms, ActiveCall(ms)) \in 0 .. ActiveCall(ms) BY <2>2, ActiveWithin
  <2> QED BY <2>1, <2>3, CheckpointAssumption DEF HasSystemPrefix
<1>2. ProtectedFrom(ms, TailMessages) \in Int /\ ProtectedFrom(ms, TailMessages) <= Len(ms)
  <2>1. TailStart(ms, TailMessages) \in Int BY <1>1 DEF TailStart, Larger, Smaller
  <2>2. ActiveTurnStart(ms) \in Int BY <1>1 DEF ActiveTurnStart
  <2> QED BY <1>1, <2>1, <2>2 DEF ProtectedFrom, Larger, Smaller
<1>3. \A g \in ToolGroups(ms) : g[1] \in 1..Len(ms) BY DEF ToolGroups
<1> DEFINE cut == {g \in ToolGroups(ms) : Crosses(g, ProtectedFrom(ms, TailMessages))}
<1>4. CASE cut = {} BY <1>2, <1>4 DEF SafeBoundary
<1>5. CASE cut # {}
  <2>1. (CHOOSE g \in cut : TRUE) \in ToolGroups(ms) BY <1>5
  <2>2. (CHOOSE g \in cut : TRUE)[1] \in 1..Len(ms) BY <2>1, <1>3
  <2>3. SafeBoundary(ms, TailMessages)
          = Larger(SystemPrefix(ms), (CHOOSE g \in cut : TRUE)[1] - 1)
    BY <1>5 DEF SafeBoundary
  <2> QED BY <1>1, <2>2, <2>3 DEF Larger
<1> QED BY <1>4, <1>5

\* Rows that are moved or replaced stay what they are.
LEMMA InFrontRows ==
  ASSUME NEW S, store \in Seq(S), NEW c \in S, NEW same \in SUBSET (DOMAIN store)
  PROVE  InFront(c, same) \in Seq(S)
<1>1. <<c>> \in Seq(S) OBVIOUS
<1>2. CASE same = {} BY <1>1, <1>2 DEF InFront
<1>3. CASE same # {}
  <2> DEFINE i == CHOOSE i \in same : TRUE
  <2>1. i \in 1..Len(store) BY <1>3
  <2> HIDE DEF i
  <2>2. SubSeq(store, 1, i - 1) \in Seq(S) /\ SubSeq(store, i + 1, Len(store)) \in Seq(S)
    BY <2>1
  <2>3. <<c>> \o (SubSeq(store, 1, i - 1) \o SubSeq(store, i + 1, Len(store))) \in Seq(S)
    BY <1>1, <2>2
  <2> QED BY <1>3, <2>3 DEF InFront, i
<1> QED BY <1>2, <1>3

LEMMA SavedRows ==
  ASSUME NEW S, store \in Seq(S), NEW c \in S
  PROVE  Saved(c) \in Seq(S)
<1> DEFINE all == InFront(c, {i \in DOMAIN store : store[i].prefix = c.prefix})
<1>1. all \in Seq(S) BY InFrontRows
<1> HIDE DEF all
<1>2. Smaller(Len(all), StoreLimit) \in Nat /\ Smaller(Len(all), StoreLimit) <= Len(all)
  BY <1>1, CheckpointAssumption DEF Smaller
<1>3. SubSeq(all, 1, Smaller(Len(all), StoreLimit)) \in Seq(S) BY <1>1, <1>2
<1> QED BY <1>3 DEF Saved, all

LEMMA TouchedRows ==
  ASSUME NEW S, store \in Seq(S), NEW c \in S
  PROVE  Touched(c) \in Seq(S)
BY InFrontRows DEF Touched

LEMMA NothingSound == NoCheckpoint \in Sound
<1>1. <<>> \in Seq(Told) OBVIOUS
<1> QED BY <1>1 DEF NoCheckpoint, Sound

-----------------------------------------------------------------------------
\* What matches the conversation is a part of the messages.
LEMMA PrefixOfConversation ==
  ASSUME NEW ms \in Seq(Told), HasSystemPrefix(ms), NEW p \in Seq(Told),
         IsPrefixOf(p, Conversation(ms))
  PROVE  /\ SystemPrefix(ms) + Len(p) <= Len(ms)
         /\ p = SubSeq(ms, SystemPrefix(ms) + 1, SystemPrefix(ms) + Len(p))
<1> DEFINE n == SystemPrefix(ms)
           conv == SubSeq(ms, n + 1, Len(ms))
           k == Len(p)
<1>1. n \in 0..Len(ms) BY DEF HasSystemPrefix
<1>2. Conversation(ms) = conv BY DEF Conversation
<1> HIDE DEF n
<1>3. /\ Len(conv) = Len(ms) - n /\ conv \in Seq(Told)
      /\ \A i \in 1 .. Len(ms) - n : conv[i] = ms[n + i]
  BY <1>1
<1>4. k \in Nat /\ k <= Len(ms) - n /\ p = SubSeq(conv, 1, k)
  BY <1>2, <1>3 DEF IsPrefixOf
<1>5. SubSeq(conv, 1, k) = SubSeq(ms, n + 1, n + k)
  <2> HIDE DEF k
  <2>1. /\ SubSeq(conv, 1, k) \in Seq(Told) /\ Len(SubSeq(conv, 1, k)) = k
        /\ \A i \in 1..k : SubSeq(conv, 1, k)[i] = conv[i]
    BY <1>1, <1>3, <1>4
  <2>2. /\ SubSeq(ms, n + 1, n + k) \in Seq(Told) /\ Len(SubSeq(ms, n + 1, n + k)) = k
        /\ \A i \in 1..k : SubSeq(ms, n + 1, n + k)[i] = ms[n + i]
    BY <1>1, <1>4
  <2>3. \A i \in 1..k : conv[i] = ms[n + i] BY <1>1, <1>3, <1>4
  <2> DEFINE one == SubSeq(conv, 1, k)
             two == SubSeq(ms, n + 1, n + k)
  <2>4. one \in Seq(Told) /\ two \in Seq(Told) /\ Len(one) = Len(two) BY <2>1, <2>2
  <2>5. \A i \in 1..Len(one) : one[i] = two[i] BY <2>1, <2>2, <2>3
  <2> HIDE DEF one, two
  <2>6. one = two BY <2>4, <2>5, SeqEqual
  <2> QED BY <2>6 DEF one, two
<1>6. n + k <= Len(ms) BY <1>1, <1>4
<1> QED BY <1>4, <1>5, <1>6 DEF n

\* A checkpoint that is loaded and matches begins the conversation.
LEMMA MatchBegins ==
  ASSUME TypeInv, NEW r \in Requests, HasSystemPrefix(messages[r]), ActiveCall(messages[r]) = 0,
         NEW loaded \in {Loaded(Candidates(r)), {}},
         NEW c \in LongestMatch(messages[r], loaded)
  PROVE  c \in Sound /\ Begins(c, messages[r])
<1> DEFINE ms == messages[r]
           n == SystemPrefix(ms)
<1>1. ms \in Seq(Told) /\ n \in 0..Len(ms) BY DEF TypeInv, HasSystemPrefix
<1>2. SafeBoundary(ms, TailMessages) \in Int BY <1>1, BoundaryWithin
<1>3. c \in Rows /\ Length(c) <= Candidates(r) BY DEF LongestMatch, Loaded
<1>4. c \in Sound BY <1>3 DEF Rows, TypeInv
<1>5. Len(c.prefix) \in Nat /\ c.prefix \in Seq(Told) BY <1>4 DEF Sound
<1>6. n + Length(c) <= SafeBoundary(ms, TailMessages)
  BY <1>1, <1>2, <1>3, <1>5 DEF Candidates, SafeEnd, Length
<1>7. IsPrefixOf(c.prefix, Conversation(ms)) BY DEF LongestMatch
<1>8. c.prefix = SubSeq(ms, n + 1, n + Len(c.prefix)) BY <1>1, <1>5, <1>7, PrefixOfConversation
<1> QED BY <1>4, <1>6, <1>8 DEF Begins, Length

\* What a generation makes covers the prefix it is stored for.
LEMMA MadeIsSound ==
  ASSUME Inv, NEW r \in Requests, pc[r] = "generating"
  PROVE  [prefix |-> SubSeq(messages[r], SystemPrefix(messages[r]) + 1, SafeEnd(r)),
          covers |-> PriorCovers(r) \o AddedMessages(r)] \in Sound
<1> DEFINE ms == messages[r]
           n == SystemPrefix(ms)
           safe == SafeBoundary(ms, TailMessages)
<1>1. ms \in Seq(Told) /\ n \in 0..Len(ms) /\ ActiveCall(ms) = 0
  BY DEF Inv, TypeInv, GenerationInv, MakesSummary, HasSystemPrefix
<1>2. safe \in Int /\ safe <= Len(ms) BY <1>1, BoundaryWithin DEF HasSystemPrefix
<1>3. SafeEnd(r) = safe BY DEF SafeEnd
<1>4. SubSeq(ms, n + 1, safe) \in Seq(Told)
  <2> HIDE DEF ms, n, safe
  <2> QED BY <1>1, <1>2
<1>5. PriorCovers(r) \o AddedMessages(r) = SubSeq(ms, n + 1, safe)
  <2>1. CASE previous[r] = {}
    <3>1. PriorCovers(r) = <<>> /\ AddedMessages(r) = SubSeq(ms, n + 0 + 1, safe)
      BY <1>3, <2>1 DEF PriorCovers, AddedMessages
    <3>2. n + 0 + 1 = n + 1 BY <1>1
    <3> QED BY <3>1, <3>2, <1>4, ConcatEmptySeq
  <2>2. CASE previous[r] # {}
    <3> DEFINE c == CHOOSE c \in previous[r] : TRUE
    <3>1. c \in previous[r] BY <2>2
    <3> HIDE DEF c
    <3>2. c \in Sound /\ Begins(c, ms) BY <3>1 DEF Inv, TypeInv, GenerationInv
    <3>3. Len(c.prefix) \in Nat /\ c.covers = c.prefix BY <3>2 DEF Sound
    <3>4. /\ PriorCovers(r) = c.covers
          /\ AddedMessages(r) = SubSeq(ms, n + Len(c.prefix) + 1, safe)
      BY <1>3, <2>2 DEF PriorCovers, AddedMessages, Length, c
    <3>5. /\ n + Len(c.prefix) <= safe
          /\ c.prefix = SubSeq(ms, n + 1, n + Len(c.prefix))
      BY <3>2 DEF Begins, Length
    <3> HIDE DEF ms, n, safe
    <3>6. SubSeq(ms, n + 1, n + Len(c.prefix)) \o SubSeq(ms, n + Len(c.prefix) + 1, safe)
            = SubSeq(ms, n + 1, safe)
      <4> DEFINE k == n + Len(c.prefix)
      <4>1. n + 1 \in 1..Len(ms) + 1 BY <1>1
      <4>2. k \in (n + 1) - 1 .. Len(ms) BY <1>1, <1>2, <3>3, <3>5
      <4>3. safe \in k .. Len(ms) BY <1>1, <1>2, <3>3, <3>5
      <4> HIDE DEF k
      <4>4. SubSeq(ms, n + 1, k) \o SubSeq(ms, k + 1, safe) = SubSeq(ms, n + 1, safe)
        BY <1>1, <4>1, <4>2, <4>3, ConcatAdjacentSubSeq
      <4> QED BY <4>4 DEF k
    <3> QED BY <3>3, <3>4, <3>5, <3>6
  <2> QED BY <2>1, <2>2
<1> QED BY <1>3, <1>4, <1>5 DEF Sound

-----------------------------------------------------------------------------
LEMMA InitInv == Init => Inv
<1> SUFFICES ASSUME Init PROVE Inv OBVIOUS
<1>1. TypeInv
  BY NothingSound DEF Init, TypeInv, Points
<1>2. GenerationInv BY DEF Init, GenerationInv, MakesSummary
<1> QED BY <1>1, <1>2 DEF Inv

\* A request leaves nothing behind.
LEMMA ForgetKeepsInv ==
  ASSUME Inv, NEW r \in Requests, Forget(r), store' \in Seq(Sound), late' \subseteq Sound
  PROVE  Inv'
<1>1. TypeInv' BY NothingSound DEF Inv, TypeInv, Forget, Points
<1>2. GenerationInv' BY DEF Inv, TypeInv, GenerationInv, MakesSummary, Forget
<1> QED BY <1>1, <1>2 DEF Inv

LEMMA StepInv == Inv /\ [Next]_vars => Inv'
<1> SUFFICES ASSUME Inv, [Next]_vars PROVE Inv' OBVIOUS
<1>1. ASSUME NEW r \in Requests, Arrive(r) PROVE Inv'
  <2>1. PICK h \in Histories, enough \in BOOLEAN :
          LET ms == <<SystemOf(r)>> \o h
              count == SafeBoundary(ms, TailMessages) - SystemPrefix(ms)
          IN  /\ messages' = [messages EXCEPT ![r] = ms]
              /\ pc' = [pc EXCEPT ![r] =
                          IF ActiveCall(ms) = 0 /\ count >= MinMessages /\ enough
                          THEN "wanting" ELSE "applying"]
    BY <1>1 DEF Arrive
  <2> DEFINE ms == <<SystemOf(r)>> \o h
  <2>2. ms \in Seq(Told) /\ HasSystemPrefix(ms) BY ArrivedMessages
  <2>3. /\ messages' = [messages EXCEPT ![r] = ms]
        /\ \/ pc' = [pc EXCEPT ![r] = "wanting"] /\ ActiveCall(ms) = 0
           \/ pc' = [pc EXCEPT ![r] = "applying"]
    BY <2>1
  <2> HIDE DEF ms
  <2>4. UNCHANGED <<store, late, made, previous, chosen>> /\ pc[r] = "idle" BY <1>1 DEF Arrive
  <2>5. TypeInv' BY <2>2, <2>3, <2>4 DEF Inv, TypeInv, Points
  <2>6. previous[r] = {} BY <2>4 DEF Inv, GenerationInv
  <2>7. GenerationInv'
    BY <2>2, <2>3, <2>4, <2>6 DEF Inv, TypeInv, GenerationInv, MakesSummary
  <2> QED BY <2>5, <2>7 DEF Inv
<1>2. ASSUME NEW r \in Requests, BeginGeneration(r) PROVE Inv'
  <2>1. PICK loaded \in {Loaded(Candidates(r)), {}} :
          \/ pc' = [pc EXCEPT ![r] = "applying"] /\ UNCHANGED previous
          \/ /\ pc' = [pc EXCEPT ![r] = "generating"]
             /\ previous' = [previous EXCEPT ![r] = LongestMatch(messages[r], loaded)]
    BY <1>2 DEF BeginGeneration
  <2>2. UNCHANGED <<store, late, made, messages, chosen>> /\ pc[r] = "wanting"
    BY <1>2 DEF BeginGeneration
  <2>3. HasSystemPrefix(messages[r]) /\ ActiveCall(messages[r]) = 0 /\ previous[r] = {}
    BY <2>2 DEF Inv, GenerationInv, MakesSummary
  <2>4. \A c \in LongestMatch(messages[r], loaded) : c \in Sound /\ Begins(c, messages[r])
    BY <2>3, MatchBegins DEF Inv
  <2>5. TypeInv' BY <2>1, <2>2, <2>4 DEF Inv, TypeInv, Points
  <2>6. GenerationInv'
    BY <2>1, <2>2, <2>3, <2>4 DEF Inv, TypeInv, GenerationInv, MakesSummary
  <2> QED BY <2>5, <2>6 DEF Inv
<1>3. ASSUME NEW r \in Requests, GenerateSummary(r) PROVE Inv'
  <2>1. TypeInv'
    BY <1>3, MadeIsSound DEF GenerateSummary, Inv, TypeInv, Points
  <2>2. GenerationInv'
    BY <1>3 DEF GenerateSummary, Inv, TypeInv, GenerationInv, MakesSummary
  <2> QED BY <2>1, <2>2 DEF Inv
<1>4. ASSUME NEW r \in Requests, SaveCheckpoint(r) PROVE Inv'
  <2>1. store' \in Seq(Sound)
    BY <1>4, SavedRows DEF SaveCheckpoint, Inv, TypeInv
  <2>2. TypeInv' BY <1>4, <2>1, NothingSound DEF SaveCheckpoint, Inv, TypeInv, Points
  <2>3. GenerationInv'
    BY <1>4 DEF SaveCheckpoint, Inv, TypeInv, GenerationInv, MakesSummary
  <2> QED BY <2>2, <2>3 DEF Inv
<1>5. ASSUME NEW r \in Requests, GenerationFails(r) PROVE Inv'
  <2>1. TypeInv' BY <1>5 DEF GenerationFails, Inv, TypeInv, Points
  <2>2. GenerationInv'
    BY <1>5 DEF GenerationFails, Inv, TypeInv, GenerationInv, MakesSummary
  <2> QED BY <2>1, <2>2 DEF Inv
<1>6. ASSUME NEW r \in Requests, Apply(r) PROVE Inv'
  <2>1. PICK loaded \in {Loaded(Candidates(r)), {}} :
          \/ /\ \E c \in LongestMatch(messages[r], loaded) : chosen' = [chosen EXCEPT ![r] = {c}]
             /\ pc' = [pc EXCEPT ![r] = "marking"]
          \/ UNCHANGED chosen /\ pc' = [pc EXCEPT ![r] = "sent"]
    BY <1>6 DEF Apply
  <2>2. UNCHANGED <<store, late, made, messages, previous>> /\ pc[r] = "applying"
    BY <1>6 DEF Apply
  <2>3. \A c \in LongestMatch(messages[r], loaded) : c \in Sound
    <3>1. \A c \in LongestMatch(messages[r], loaded) : c \in Rows
      BY DEF LongestMatch, Loaded
    <3>2. \A c \in Rows : c \in Sound BY DEF Rows, Inv, TypeInv
    <3> QED BY <3>1, <3>2
  <2>4. TypeInv'
    <3>1. chosen' \in [Requests -> SUBSET Sound]
      <4>1. chosen \in [Requests -> SUBSET Sound] BY DEF Inv, TypeInv
      <4>2. CASE UNCHANGED chosen BY <4>1, <4>2
      <4>3. ASSUME NEW c \in LongestMatch(messages[r], loaded),
                   chosen' = [chosen EXCEPT ![r] = {c}]
            PROVE  chosen' \in [Requests -> SUBSET Sound]
        BY <2>3, <4>1, <4>3
      <4> QED BY <2>1, <4>2, <4>3
    <3> HIDE DEF Sound
    <3>2. pc' \in [Requests -> Points] BY <2>1 DEF Inv, TypeInv, Points
    <3> QED BY <2>2, <3>1, <3>2 DEF Inv, TypeInv
  <2>5. GenerationInv' BY <2>1, <2>2 DEF Inv, TypeInv, GenerationInv, MakesSummary
  <2> QED BY <2>4, <2>5 DEF Inv
<1>7. ASSUME NEW r \in Requests, MarkUsed(r) PROVE Inv'
  <2>1. store' \in Seq(Sound)
    BY <1>7, TouchedRows DEF MarkUsed, Inv, TypeInv
  <2>2. TypeInv' BY <1>7, <2>1 DEF MarkUsed, Inv, TypeInv, Points
  <2>3. GenerationInv' BY <1>7 DEF MarkUsed, Inv, TypeInv, GenerationInv, MakesSummary
  <2> QED BY <2>2, <2>3 DEF Inv
<1>8. ASSUME NEW r \in Requests, Answered(r) PROVE Inv'
  BY <1>8, ForgetKeepsInv DEF Answered, Inv, TypeInv
<1>9. ASSUME NEW r \in Requests, Cancelled(r) PROVE Inv'
  <2>1. Forget(r) /\ store' \in Seq(Sound) /\ late' \subseteq Sound
    BY <1>9 DEF Cancelled, Inv, TypeInv
  <2> QED BY <2>1, ForgetKeepsInv
<1>10. ASSUME LateSave PROVE Inv'
  <2>1. store' \in Seq(Sound) /\ late' \subseteq Sound
    BY <1>10, SavedRows DEF LateSave, Inv, TypeInv
  <2>2. UNCHANGED <<pc, messages, previous, made, chosen>> BY <1>10 DEF LateSave
  <2> QED BY <2>1, <2>2 DEF Inv, TypeInv, GenerationInv, MakesSummary
<1>11. CASE UNCHANGED vars
  BY <1>11 DEF vars, Inv, TypeInv, GenerationInv, MakesSummary
<1> QED
  BY <1>1, <1>2, <1>3, <1>4, <1>5, <1>6, <1>7, <1>8, <1>9, <1>10, <1>11 DEF Next, Serve

\* The states of a generation, and the store, are as the argument needs them.
THEOREM CheckpointInvariant == Spec => []Inv
BY InitInv, StepInv, PTL DEF Spec

\* A summary tells of the messages its checkpoint is known by, each once and
\* in their order, through any number of refreshes, cancellations, failed
\* saves and late saves (text_summary_checkpoint_manager.py).
THEOREM CheckpointsCoverPrefix == Spec => []SummariesCoverPrefix
<1>1. Inv => SummariesCoverPrefix
  BY DEF Inv, TypeInv, SummariesCoverPrefix, Checkpoints, Rows, Sound
<1> QED BY <1>1, CheckpointInvariant, PTL

-----------------------------------------------------------------------------
(* Which checkpoint is applied                                             *)

LEMMA RowsFinite ==
  ASSUME TypeInv
  PROVE  IsFiniteSet(Rows) /\ \A c \in Rows : c \in Sound /\ Length(c) \in Nat
<1>1. /\ DOMAIN store = 1 .. Len(store) /\ Len(store) \in Nat
      /\ \A i \in DOMAIN store : store[i] \in Sound
  BY DEF TypeInv
<1>2. IsFiniteSet(DOMAIN store) BY <1>1, FS_Interval
<1>3. IsFiniteSet(Rows)
  <2>1. store \in Surjection(DOMAIN store, Rows) BY DEF TypeInv, Rows, Surjection
  <2> QED BY <1>2, <2>1, FS_Surjection
<1>4. \A c \in Sound : Length(c) \in Nat
  <2>1. \A c \in Sound : c.prefix \in Seq(Told) BY DEF Sound
  <2> QED BY <2>1 DEF Length
<1>5. \A c \in Rows : c \in Sound BY <1>1 DEF Rows
<1> QED BY <1>3, <1>4, <1>5

\* A row that is not loaded is no longer than one that is.
LEMMA LongestLoaded ==
  ASSUME TypeInv, NEW most \in Int, NEW c \in Loaded(most),
         NEW d \in Rows, Length(d) <= most, d \notin Loaded(most)
  PROVE  Length(d) <= Length(c)
<1> DEFINE eligible == {e \in Rows : Length(e) <= most}
           First(x) == {e \in eligible : LoadedFirst(e, x)}
<1>1. c \in eligible /\ Cardinality(First(c)) < LoadLimit BY DEF Loaded
<1>2. d \in eligible /\ ~(Cardinality(First(d)) < LoadLimit) BY DEF Loaded
<1>3. IsFiniteSet(First(c)) /\ IsFiniteSet(First(d))
  <2>1. First(c) \subseteq Rows /\ First(d) \subseteq Rows OBVIOUS
  <2> QED BY <2>1, RowsFinite, FS_Subset
<1>4. Length(c) \in Nat /\ Length(d) \in Nat BY <1>1, RowsFinite
<1>5. ASSUME Length(c) < Length(d)
      PROVE  First(d) \subseteq First(c)
  <2> SUFFICES ASSUME NEW e \in eligible, LoadedFirst(e, d)
               PROVE  LoadedFirst(e, c)
    OBVIOUS
  <2>1. Length(e) \in Nat BY RowsFinite
  <2>2. Length(e) >= Length(d) BY <1>4, <2>1 DEF LoadedFirst
  <2> QED BY <1>4, <1>5, <2>1, <2>2 DEF LoadedFirst
<1> HIDE DEF First
<1>6. ASSUME Length(c) < Length(d)
      PROVE  FALSE
  <2>1. Cardinality(First(d)) <= Cardinality(First(c)) BY <1>3, <1>5, <1>6, FS_Subset
  <2>2. Cardinality(First(d)) \in Nat /\ Cardinality(First(c)) \in Nat /\ LoadLimit \in Nat
    BY <1>3, FS_CardinalityType, CheckpointAssumption
  <2> QED BY <1>1, <1>2, <2>1, <2>2
<1> QED BY <1>4, <1>6

\* The summary that is applied is the longest that was stored for this
\* conversation and leaves the protected tail alone, whatever the limit on
\* loading leaves out (find_matching_text_summary_checkpoint).
LEMMA AppliedLongest ==
  ASSUME TypeInv, [Next]_vars, NEW r \in Requests, pc[r] = "applying", pc'[r] = "marking",
         NEW c \in chosen'[r], NEW d \in Rows, Fits(r, d), Candidates(r) \in Int
  PROVE  Length(d) <= Length(c)
<1>1. \A q \in Requests : pc[q] \in Points BY DEF TypeInv
<1>2. pc \in [Requests -> Points] /\ chosen \in [Requests -> SUBSET Sound] BY DEF TypeInv
<1>3. ASSUME NEW q \in Requests, Serve(q), q # r PROVE pc'[r] = pc[r]
  BY <1>2, <1>3 DEF Serve, Arrive, BeginGeneration, GenerateSummary, SaveCheckpoint, GenerationFails,
         Apply, MarkUsed, Answered, Cancelled, Forget
<1>4. Serve(r) BY <1>3 DEF Next, LateSave, vars
<1>5. Apply(r)
  BY <1>2, <1>4 DEF Serve, Arrive, BeginGeneration, GenerateSummary, SaveCheckpoint, GenerationFails,
         MarkUsed, Answered, Cancelled, Forget
<1>6. PICK loaded \in {Loaded(Candidates(r)), {}} :
        c \in LongestMatch(messages[r], loaded)
  <2>1. PICK loaded \in {Loaded(Candidates(r)), {}} :
          \/ \E b \in LongestMatch(messages[r], loaded) : chosen' = [chosen EXCEPT ![r] = {b}]
          \/ pc' = [pc EXCEPT ![r] = "sent"]
    BY <1>5 DEF Apply
  <2>2. pc' # [pc EXCEPT ![r] = "sent"] BY <1>2
  <2>3. PICK b \in LongestMatch(messages[r], loaded) : chosen' = [chosen EXCEPT ![r] = {b}]
    BY <2>1, <2>2
  <2>4. c = b BY <1>2, <2>3
  <2> QED BY <2>3, <2>4
<1>7. loaded = Loaded(Candidates(r)) /\ c \in loaded BY <1>6 DEF LongestMatch
<1>8. CASE d \in loaded
  BY <1>6, <1>8 DEF LongestMatch, Fits
<1>9. CASE d \notin loaded
  <2>1. Length(d) <= Candidates(r) BY DEF Fits
  <2> QED BY <1>7, <1>9, <2>1, LongestLoaded
<1> QED BY <1>8, <1>9

\* The messages of a request are its system message and a client's conversation.
ServedInv == \A r \in Requests :
  pc[r] # "idle" => \E h \in Histories : messages[r] = <<SystemOf(r)>> \o h

LEMMA ServedStep ==
  ASSUME TypeInv, ServedInv, [Next]_vars
  PROVE  ServedInv'
<1>1. pc \in [Requests -> Points] /\ messages \in [Requests -> Seq(Told)] BY DEF TypeInv
<1>2. ASSUME NEW r \in Requests, Arrive(r) PROVE ServedInv'
  <2>1. PICK h \in Histories : messages' = [messages EXCEPT ![r] = <<SystemOf(r)>> \o h]
    BY <1>2 DEF Arrive
  <2>2. \A q \in Requests : q # r => pc'[q] = pc[q] BY <1>1, <1>2 DEF Arrive
  <2>3. messages'[r] = <<SystemOf(r)>> \o h BY <1>1, <2>1
  <2>4. \A q \in Requests : q # r => messages'[q] = messages[q] BY <1>1, <2>1
  <2> QED BY <2>2, <2>3, <2>4 DEF ServedInv
<1>3. ASSUME NEW r \in Requests, Forget(r) PROVE ServedInv'
  BY <1>1, <1>3 DEF Forget, ServedInv
<1>4. ASSUME UNCHANGED messages, \A r \in Requests : pc[r] = "idle" => pc'[r] = "idle"
      PROVE  ServedInv'
  BY <1>4 DEF ServedInv
<1>5. ASSUME NEW r \in Requests,
             \/ BeginGeneration(r) \/ GenerateSummary(r) \/ SaveCheckpoint(r)
             \/ GenerationFails(r) \/ Apply(r) \/ MarkUsed(r)
      PROVE  UNCHANGED messages /\ \A q \in Requests : pc[q] = "idle" => pc'[q] = "idle"
  BY <1>1, <1>5 DEF BeginGeneration, GenerateSummary, SaveCheckpoint, GenerationFails, Apply, MarkUsed
<1>6. ASSUME LateSave \/ UNCHANGED vars
      PROVE  UNCHANGED messages /\ \A q \in Requests : pc[q] = "idle" => pc'[q] = "idle"
  BY <1>6 DEF LateSave, vars
<1> QED
  BY <1>2, <1>3, <1>4, <1>5, <1>6 DEF Next, Serve, Answered, Cancelled

\* What a request that is served asks for, as the lemmas need it.
LEMMA ServedMessages ==
  ASSUME ServedInv, NEW r \in Requests, pc[r] # "idle"
  PROVE  /\ messages[r] \in Seq(Told) /\ HasSystemPrefix(messages[r])
         /\ Candidates(r) \in Int
<1>1. PICK h \in Histories : messages[r] = <<SystemOf(r)>> \o h BY DEF ServedInv
<1>2. messages[r] \in Seq(Told) /\ HasSystemPrefix(messages[r]) BY <1>1, ArrivedMessages
<1>3. SafeBoundary(messages[r], TailMessages) \in Int BY <1>2, BoundaryWithin
<1>4. SystemPrefix(messages[r]) \in Int BY <1>2 DEF HasSystemPrefix
<1> QED BY <1>2, <1>3, <1>4 DEF Candidates, SafeEnd

\* Every request that is served has the messages it came with.
LEMMA ServedInvariant == Spec => []ServedInv
<1>1. Init => ServedInv BY DEF Init, ServedInv
<1>2. Inv /\ ServedInv /\ [Next]_vars => ServedInv' BY ServedStep DEF Inv
<1> QED BY <1>1, <1>2, CheckpointInvariant, PTL DEF Spec

\* The summary that is applied is the longest that was stored for this
\* conversation and leaves the protected tail alone, whatever the limit on
\* loading leaves out and whoever saves in between (routes.py,
\* _maybe_apply_text_summary_checkpoint).
THEOREM LongestIsApplied == Spec => LongestApplied
<1> DEFINE Chosen == \A r \in Requests : pc[r] = "applying" /\ pc'[r] = "marking" =>
                       \A c \in chosen'[r] : \A d \in Rows : Fits(r, d) => Length(d) <= Length(c)
<1>1. Inv /\ ServedInv /\ [Next]_vars => Chosen
  <2> SUFFICES ASSUME Inv, ServedInv, [Next]_vars, NEW r \in Requests,
                      pc[r] = "applying", pc'[r] = "marking",
                      NEW c \in chosen'[r], NEW d \in Rows, Fits(r, d)
               PROVE  Length(d) <= Length(c)
    OBVIOUS
  <2>1. Candidates(r) \in Int BY ServedMessages
  <2> QED BY <2>1, AppliedLongest DEF Inv
<1>2. Inv /\ ServedInv /\ [Next]_vars => [Chosen]_vars BY <1>1
<1> QED BY <1>2, CheckpointInvariant, ServedInvariant, PTL DEF Spec, LongestApplied

-----------------------------------------------------------------------------
(* What the compactions leave                                              *)

Msgs == Told \cup {SummaryMessage(s) : s \in Seq(Told)}

Omit(m) == [m EXCEPT !.omitted = TRUE]
Covering(m, s) == [m EXCEPT !.covers = s]

\* A message from which nothing was omitted.
Entire(m) ==
  m = [role |-> m.role, name |-> m.name, media |-> m.media, calls |-> m.calls,
       answers |-> m.answers, covers |-> m.covers, omitted |-> FALSE]

\* A message with these fields.
Fields(a, b, c, d, e, f, g) ==
  [role |-> a, name |-> b, media |-> c, calls |-> d, answers |-> e, covers |-> f, omitted |-> g]

\* One field of a message changes and the others do not.
LEMMA FieldsOmitted ==
  \A a, b, c, d, e, f, g :
    /\ Omit(Fields(a, b, c, d, e, f, g)) = Fields(a, b, c, d, e, f, TRUE)
    /\ Whole(Fields(a, b, c, d, e, f, g)) = Fields(a, b, c, d, e, f, FALSE)
<1> TAKE a, b, c, d, e, f, g
<1> DEFINE m == Fields(a, b, c, d, e, f, g)
           o(y) == Fields(a, b, c, d, e, f, y)
           names == {"role", "name", "media", "calls", "answers", "covers", "omitted"}
<1>1. ASSUME NEW y PROVE [m EXCEPT !.omitted = y] = o(y)
  <2>1. DOMAIN m = names BY DEF Fields
  <2>2. o(y) = [i \in names |-> o(y)[i]] BY DEF Fields
  <2>3. \A i \in names : o(y)[i] = IF i = "omitted" THEN y ELSE m[i] BY DEF Fields
  <2>4. [m EXCEPT !.omitted = y] = [i \in names |-> IF i = "omitted" THEN y ELSE m[i]]
    BY <2>1 DEF Fields
  <2> HIDE DEF m, o, names
  <2> QED BY <2>2, <2>3, <2>4
<1> HIDE DEF m, o
<1>2. Omit(m) = o(TRUE) /\ Whole(m) = o(FALSE) BY <1>1, Zenon DEF Omit, Whole
<1> QED BY <1>2 DEF m, o

LEMMA FieldsCovering ==
  \A a, b, c, d, e, f, g, x :
    Covering(Fields(a, b, c, d, e, f, g), x) = Fields(a, b, c, d, e, x, g)
<1> TAKE a, b, c, d, e, f, g, x
<1> DEFINE m == Fields(a, b, c, d, e, f, g)
           n == Fields(a, b, c, d, e, x, g)
           names == {"role", "name", "media", "calls", "answers", "covers", "omitted"}
<1>1. DOMAIN m = names /\ n = [i \in names |-> n[i]] BY DEF Fields
<1>2. \A i \in names : n[i] = IF i = "covers" THEN x ELSE m[i] BY DEF Fields
<1>3. Covering(m, x) = [i \in names |-> IF i = "covers" THEN x ELSE m[i]]
  BY <1>1 DEF Covering, Fields
<1> HIDE DEF m, n, names
<1>4. Covering(m, x) = n BY <1>1, <1>2, <1>3
<1> QED BY <1>4 DEF m, n

\* A summary covers what it is made to cover.
LEMMA SummaryEntire ==
  ASSUME NEW s
  PROVE  Entire(SummaryMessage(s)) /\ SummaryMessage(s).covers = s
<1> DEFINE full(x, y) == Fields("assistant", "summary", y, {}, "", x, y)
<1>1. Message("assistant", "summary", FALSE, {}, "") = full(<<>>, FALSE) BY DEF Message, Fields
<1>2. Entire(full(s, FALSE)) /\ full(s, FALSE).covers = s BY DEF Entire, Fields
<1>3. PICK a, b, no, d, f : a = "assistant" /\ b = "summary" /\ no = FALSE /\ d = {} /\ f = <<>>
  OBVIOUS
<1>4. PICK e : e = "" OBVIOUS
<1>5. Covering(Fields(a, b, no, d, e, f, no), s) = Fields(a, b, no, d, e, s, no)
  BY FieldsCovering
<1>6. Covering(full(<<>>, FALSE), s) = full(s, FALSE) BY <1>3, <1>4, <1>5, Zenon
<1> HIDE DEF full
<1>7. SummaryMessage(s) = full(s, FALSE) BY <1>1, <1>6, Zenon DEF SummaryMessage, Covering
<1> QED BY <1>2, <1>7, Zenon

LEMMA MessagesEntire ==
  /\ \A m \in Told : Entire(m) /\ m.covers = <<>>
  /\ \A s : Entire(SummaryMessage(s)) /\ SummaryMessage(s).covers = s
<1>1. \A role, name, media, calls, answers :
        /\ Entire(Message(role, name, media, calls, answers))
        /\ Message(role, name, media, calls, answers).covers = <<>>
  BY DEF Message, Entire
<1>2. ASSUME NEW m \in Told PROVE Entire(m) /\ m.covers = <<>>
  <2>1. CASE \E r \in Requests : m = SystemOf(r) BY <2>1, <1>1 DEF SystemOf
  <2>2. CASE \E h \in Histories : \E i \in DOMAIN h : m = h[i]
    <3>1. PICK h \in Histories : \E i \in DOMAIN h : m = h[i] BY <2>2
    <3>2. PICK i \in DOMAIN h : m = h[i] BY <3>1
    <3>3. m = Message(m.role, m.name, m.media, m.calls, m.answers)
      BY <3>2, CheckpointAssumption
    <3> QED BY <3>3, <1>1
  <2> QED BY <2>1, <2>2 DEF Told
<1> QED BY <1>2, SummaryEntire

\* Omitting, once or twice, is undone and leaves what a message covers.
LEMMA OmittedWhole ==
  ASSUME NEW m, Entire(m), NEW o \in {m, Omit(m), Omit(Omit(m))}
  PROVE  Whole(o) = m /\ o.covers = m.covers
<1> DEFINE Full(x) == Fields(m.role, m.name, m.media, m.calls, m.answers, m.covers, x)
<1>1. m = Full(FALSE) BY DEF Entire, Fields
<1>2. \A x : Omit(Full(x)) = Full(TRUE) /\ Whole(Full(x)) = Full(FALSE) BY FieldsOmitted
<1>3. \A x : Full(x).covers = m.covers BY DEF Fields
<1> HIDE DEF Full
<1>4. o \in {Full(FALSE), Full(TRUE)} BY <1>1, <1>2
<1> QED BY <1>1, <1>2, <1>3, <1>4

\* A compaction changes nothing but what is omitted.
LEMMA CompactionWhole ==
  ASSUME NEW ms, \A i \in DOMAIN ms : Entire(ms[i]), NEW out \in Compactions(ms)
  PROVE  /\ DOMAIN out = DOMAIN ms
         /\ \A i \in DOMAIN ms : Whole(out[i]) = ms[i] /\ out[i].covers = ms[i].covers
<1> DEFINE mo == MediaOmitted(ms)
<1>1. DOMAIN mo = DOMAIN ms /\ \A i \in DOMAIN ms : mo[i] \in {ms[i], Omit(ms[i])}
  BY DEF MediaOmitted, Omit
<1>2. PICK groups \in SUBSET OldGroups(ms, TailMessages) : out = ToolsOmitted(mo, groups)
  BY DEF Compactions
<1> HIDE DEF mo
<1>3. DOMAIN out = DOMAIN mo /\ \A i \in DOMAIN mo : out[i] \in {mo[i], Omit(mo[i])}
  BY <1>2 DEF ToolsOmitted, Omit
<1>4. \A i \in DOMAIN ms : out[i] \in {ms[i], Omit(ms[i]), Omit(Omit(ms[i]))}
  BY <1>1, <1>3
<1> QED BY <1>1, <1>3, <1>4, OmittedWhole

\* The messages told of, before a summary is replaced by what it covers.
LEMMA ToldWhole ==
  ASSUME NEW ms \in Seq(Msgs), NEW out \in Compactions(ms)
  PROVE  /\ [i \in DOMAIN out |-> Whole(out[i])] = ms
         /\ DOMAIN out = 1 .. Len(ms)
         /\ \A i \in DOMAIN out : out[i].covers = ms[i].covers
<1>1. \A i \in DOMAIN ms : Entire(ms[i])
  <2>1. \A i \in DOMAIN ms : ms[i] \in Msgs OBVIOUS
  <2>2. \A m \in Msgs : Entire(m) BY MessagesEntire DEF Msgs
  <2> QED BY <2>1, <2>2
<1>2. /\ DOMAIN out = DOMAIN ms
      /\ \A i \in DOMAIN ms : Whole(out[i]) = ms[i] /\ out[i].covers = ms[i].covers
  BY <1>1, CompactionWhole
<1>3. DOMAIN ms = 1 .. Len(ms) /\ ms = [i \in DOMAIN ms |-> ms[i]] OBVIOUS
<1> QED BY <1>2, <1>3

\* Without a summary what goes out tells of the request's messages.
LEMMA ToldOfPlain ==
  ASSUME NEW ms \in Seq(Told), NEW out \in Compactions(ms)
  PROVE  ToldOf(out) = ms
<1>1. Told \subseteq Msgs BY DEF Msgs
<1>2. ms \in Seq(Msgs) BY <1>1, SeqMonotonic
<1>3. /\ [i \in DOMAIN out |-> Whole(out[i])] = ms
      /\ DOMAIN out = 1 .. Len(ms)
      /\ \A i \in DOMAIN out : out[i].covers = ms[i].covers
  BY <1>2, ToldWhole
<1>4. \A i \in 1 .. Len(ms) : ms[i] \in Told OBVIOUS
<1>5. {i \in DOMAIN out : out[i].covers # <<>>} = {} BY <1>3, <1>4, MessagesEntire
<1> QED BY <1>3, <1>5 DEF ToldOf

\* Two sequences put together can be taken apart again.
LEMMA Parts ==
  ASSUME NEW S, NEW s \in Seq(S), NEW t \in Seq(S)
  PROVE  /\ SubSeq(s \o t, 1, Len(s)) = s
         /\ SubSeq(s \o t, Len(s) + 1, Len(s) + Len(t)) = t
<1> DEFINE st == s \o t
           j == Len(s)
           k == Len(t)
           front == SubSeq(st, 1, j)
           back == SubSeq(st, j + 1, j + k)
<1>1. /\ st \in Seq(S) /\ Len(st) = j + k /\ j \in Nat /\ k \in Nat
      /\ \A i \in 1 .. j + k : st[i] = IF i <= j THEN s[i] ELSE t[i - j]
  BY ConcatProperties
<1> HIDE DEF st
<1>2. \A i \in 1 .. j + k : st[i] \in S BY <1>1
<1>3. /\ front \in Seq(S) /\ Len(front) = j
      /\ \A i \in 1 .. j : front[i] = st[i]
  BY <1>1, <1>2
<1>4. /\ back \in Seq(S) /\ Len(back) = k
      /\ \A i \in 1 .. k : back[i] = st[j + i]
  BY <1>1, <1>2
<1>5. \A i \in 1 .. k : st[j + i] = t[i]
  <2> TAKE i \in 1 .. k
  <2>1. j + i \in 1 .. j + k /\ ~(j + i <= j) /\ (j + i) - j = i BY <1>1
  <2> QED BY <1>1, <2>1
<1> HIDE DEF front, back
<1>6. front = s
  <2>1. \A i \in 1 .. Len(front) : front[i] = s[i] BY <1>1, <1>3
  <2> QED BY <1>3, <2>1, SeqEqual
<1>7. back = t
  <2>1. \A i \in 1 .. Len(back) : back[i] = t[i] BY <1>4, <1>5
  <2> QED BY <1>4, <2>1, SeqEqual
<1> QED BY <1>6, <1>7 DEF front, back, st

LEMMA FirstOfThree ==
  ASSUME NEW S, NEW s \in Seq(S), NEW t \in Seq(S), NEW u \in Seq(S)
  PROVE  SubSeq((s \o t) \o u, 1, Len(s)) = s
<1>1. (s \o t) \o u = s \o (t \o u) BY ConcatAssociative
<1>2. t \o u \in Seq(S) BY ConcatProperties
<1>3. SubSeq(s \o (t \o u), 1, Len(s)) = s BY <1>2, Parts
<1> QED BY <1>1, <1>3

\* With a summary that covers what it replaces, too.
LEMMA ToldOfSummarized ==
  ASSUME NEW ms \in Seq(Told), NEW n \in 0 .. Len(ms), n = SystemPrefix(ms),
         NEW end \in n + 1 .. Len(ms),
         NEW out \in Compactions(Summarized(ms, SubSeq(ms, n + 1, end), end))
  PROVE  ToldOf(out) = ms
<1> DEFINE covers == SubSeq(ms, n + 1, end)
           head == SubSeq(ms, 1, n)
           tail == SubSeq(ms, end + 1, Len(ms))
           base == (head \o <<SummaryMessage(covers)>>) \o tail
           k == Len(base)
<1>1. /\ head \in Seq(Told) /\ Len(head) = n
      /\ covers \in Seq(Told) /\ Len(covers) = end - n
      /\ tail \in Seq(Told) /\ Len(tail) = Len(ms) - end
  OBVIOUS
<1>2. Told \subseteq Msgs /\ SummaryMessage(covers) \in Msgs BY <1>1 DEF Msgs
<1>3. head \in Seq(Msgs) /\ tail \in Seq(Msgs) /\ covers \in Seq(Msgs) BY <1>1, <1>2, SeqMonotonic
<1>4. Summarized(ms, covers, end) = base BY DEF Summarized
<1>5. /\ n \in Nat /\ end \in Nat /\ Len(ms) \in Nat /\ n < end /\ end <= Len(ms)
      /\ Len(tail) \in Nat /\ covers # <<>>
  <2>1. n \in Nat /\ end \in Nat /\ Len(ms) \in Nat /\ n < end /\ end <= Len(ms) OBVIOUS
  <2> HIDE DEF covers, tail
  <2> QED BY <1>1, <2>1
<1> HIDE DEF covers, head, tail
<1> DEFINE middle == <<SummaryMessage(covers)>>
           first == head \o middle
<1>6. middle \in Seq(Msgs) /\ Len(middle) = 1 /\ middle[1] = SummaryMessage(covers) BY <1>2
<1>7. /\ first \in Seq(Msgs) /\ Len(first) = n + 1 /\ first[n + 1] = SummaryMessage(covers)
      /\ \A i \in 1 .. n : first[i] = head[i]
  <2> HIDE DEF middle, base
  <2>1. /\ first \in Seq(Msgs) /\ Len(first) = Len(head) + Len(middle)
        /\ \A i \in 1 .. Len(head) + Len(middle) :
              first[i] = IF i <= Len(head) THEN head[i] ELSE middle[i - Len(head)]
    BY <1>3, <1>6, ConcatProperties
  <2> HIDE DEF first
  <2>2. n + 1 \in 1 .. n + 1 /\ ~(n + 1 <= n) /\ (n + 1) - n = 1 BY <1>5
  <2>3. \A i \in 1 .. n : i \in 1 .. n + 1 /\ i <= n BY <1>5
  <2> QED BY <1>1, <1>6, <2>1, <2>2, <2>3
<1> HIDE DEF first
<1>8. /\ base = first \o tail /\ base \in Seq(Msgs) /\ k = n + 1 + Len(tail)
      /\ \A i \in 1 .. k : base[i] = IF i <= n + 1 THEN first[i] ELSE tail[i - (n + 1)]
  <2>1. base = first \o tail BY DEF first
  <2> HIDE DEF base, middle
  <2>2. /\ first \o tail \in Seq(Msgs) /\ Len(first \o tail) = Len(first) + Len(tail)
        /\ \A i \in 1 .. Len(first) + Len(tail) :
              (first \o tail)[i] = IF i <= Len(first) THEN first[i] ELSE tail[i - Len(first)]
    BY <1>3, <1>7, ConcatProperties
  <2> QED BY <1>7, <2>1, <2>2
<1> HIDE DEF base
<1>9. \A i \in 1 .. n : base[i] = head[i] BY <1>5, <1>7, <1>8
<1>10. base[n + 1] = SummaryMessage(covers) BY <1>5, <1>7, <1>8
<1>11. \A i \in n + 2 .. k : i - (n + 1) \in 1 .. Len(tail) /\ base[i] = tail[i - (n + 1)]
  BY <1>5, <1>8
<1>12. SubSeq(base, 1, n) = head
  <2> HIDE DEF middle
  <2>1. SubSeq((head \o middle) \o tail, 1, Len(head)) = head BY <1>3, <1>6, FirstOfThree
  <2> QED BY <1>1, <1>8, <2>1 DEF first
<1>13. SubSeq(base, n + 2, k) = tail
  <2> HIDE DEF middle
  <2>1. SubSeq(first \o tail, Len(first) + 1, Len(first) + Len(tail)) = tail
    BY <1>3, <1>7, Parts
  <2>2. (n + 1) + 1 = n + 2 /\ (n + 1) + Len(tail) = k BY <1>5, <1>8
  <2> QED BY <1>7, <1>8, <2>1, <2>2
<1> HIDE DEF base, first, middle
<1>14. /\ [i \in DOMAIN out |-> Whole(out[i])] = base
       /\ DOMAIN out = 1 .. k
       /\ \A i \in DOMAIN out : out[i].covers = base[i].covers
  BY <1>4, <1>8, ToldWhole DEF covers
<1>15. {i \in DOMAIN out : out[i].covers # <<>>} = {n + 1}
  <2>1. \A i \in 1 .. n : base[i].covers = <<>>
    <3>1. \A i \in 1 .. n : head[i] \in Told BY <1>1
    <3> QED BY <1>9, <3>1, MessagesEntire
  <2>2. \A i \in n + 2 .. k : base[i].covers = <<>>
    <3>1. \A j \in 1 .. Len(tail) : tail[j] \in Told BY <1>1
    <3> QED BY <1>11, <3>1, MessagesEntire
  <2>3. base[n + 1].covers = covers BY <1>10, MessagesEntire
  <2>4. n + 1 \in 1 .. k BY <1>1, <1>8
  <2>5. \A i \in 1 .. k : i \in 1 .. n \/ i = n + 1 \/ i \in n + 2 .. k BY <1>8
  <2> QED BY <1>5, <1>14, <2>1, <2>2, <2>3, <2>4, <2>5
<1>16. ToldOf(out) = SubSeq(base, 1, (n + 1) - 1) \o base[n + 1].covers \o SubSeq(base, (n + 1) + 1, k)
  <2>1. (CHOOSE i \in {n + 1} : TRUE) = n + 1 OBVIOUS
  <2>2. Len([i \in DOMAIN out |-> Whole(out[i])]) = k BY <1>14
  <2>3. {n + 1} # {} OBVIOUS
  <2> QED BY <1>14, <1>15, <2>1, <2>2, <2>3 DEF ToldOf
<1>17. ToldOf(out) = (head \o covers) \o tail
  <2>1. (n + 1) - 1 = n /\ (n + 1) + 1 = n + 2 OBVIOUS
  <2>2. base[n + 1].covers = covers BY <1>10, MessagesEntire
  <2> QED BY <1>12, <1>13, <1>16, <2>1, <2>2
<1>18. head \o covers = SubSeq(ms, 1, end)
  <2>1. 1 \in 1 .. Len(ms) + 1 /\ n \in 1 - 1 .. Len(ms) /\ end \in n .. Len(ms) OBVIOUS
  <2> QED BY <2>1, ConcatAdjacentSubSeq DEF head, covers
<1>19. SubSeq(ms, 1, end) \o tail = SubSeq(ms, 1, Len(ms))
  <2>1. 1 \in 1 .. Len(ms) + 1 /\ end \in 1 - 1 .. Len(ms) /\ Len(ms) \in end .. Len(ms) OBVIOUS
  <2> QED BY <2>1, ConcatAdjacentSubSeq DEF tail
<1> QED BY <1>17, <1>18, <1>19, SubSeqFull

\* What fits leaves the safe tail alone and begins the conversation.
LEMMA FittingSummary ==
  ASSUME TypeInv, NEW ms \in Seq(Told), HasSystemPrefix(ms), NEW c \in Sound,
         IsPrefixOf(c.prefix, Conversation(ms)), MayEndAt(ms, TailMessages, SystemPrefix(ms) + Length(c)),
         NEW out \in Compactions(Summarized(ms, c.covers, SystemPrefix(ms) + Length(c)))
  PROVE  ToldOf(out) = ms
<1> DEFINE n == SystemPrefix(ms)
           end == n + Length(c)
<1>1. n \in 0 .. Len(ms) BY DEF HasSystemPrefix
<1>2. /\ SafeBoundary(ms, TailMessages) \in Int /\ SafeBoundary(ms, TailMessages) <= Len(ms)
  BY BoundaryWithin
<1>3. c.prefix \in Seq(Told) /\ c.covers = c.prefix BY DEF Sound
<1>4. Length(c) \in Nat BY <1>3 DEF Length
<1>5. end \in n + 1 .. Len(ms)
  <2>1. n < end /\ end <= SafeBoundary(ms, TailMessages) BY DEF MayEndAt
  <2> HIDE DEF n
  <2> QED BY <1>1, <1>2, <1>4, <2>1
<1>6. c.covers = SubSeq(ms, n + 1, end) BY <1>3, PrefixOfConversation DEF Length
<1> HIDE DEF end
<1>7. out \in Compactions(Summarized(ms, SubSeq(ms, n + 1, end), end)) BY <1>6 DEF end
<1>8. n = SystemPrefix(ms) OBVIOUS
<1> HIDE DEF n
<1> QED BY <1>1, <1>5, <1>7, <1>8, ToldOfSummarized

\* What goes out tells of the request's messages, with a summary or without.
LEMMA AppliedFaithful ==
  ASSUME Inv, ServedInv, DOMAIN sent = Requests, NEW r \in Requests, Apply(r)
  PROVE  /\ ToldOf(sent'[r]) = messages[r]
         /\ DOMAIN sent' = Requests
         /\ \A q \in Requests : q # r => sent'[q] = sent[q] /\ pc'[q] = pc[q]
<1> DEFINE ms == messages[r]
<1>1. pc[r] = "applying" /\ pc \in [Requests -> Points] BY DEF Apply, Inv, TypeInv
<1>2. ms \in Seq(Told) /\ HasSystemPrefix(ms) BY <1>1, ServedMessages
<1>3. PICK loaded \in {Loaded(Candidates(r)), {}} :
        \/ \E c \in LongestMatch(ms, loaded) :
             /\ MayEndAt(ms, TailMessages, EndOf(r, c))
             /\ \E out \in Compactions(Summarized(ms, c.covers, EndOf(r, c))) :
                  sent' = [sent EXCEPT ![r] = out]
             /\ pc' = [pc EXCEPT ![r] = "marking"]
        \/ /\ \E out \in Compactions(ms) : sent' = [sent EXCEPT ![r] = out]
           /\ pc' = [pc EXCEPT ![r] = "sent"]
  BY DEF Apply
<1>4. ASSUME NEW c \in LongestMatch(ms, loaded), MayEndAt(ms, TailMessages, EndOf(r, c)),
             NEW out \in Compactions(Summarized(ms, c.covers, EndOf(r, c)))
      PROVE  ToldOf(out) = ms
  <2>1. c \in loaded /\ IsPrefixOf(c.prefix, Conversation(ms)) BY DEF LongestMatch
  <2>2. c \in Sound
    <3>1. c \in Rows BY <2>1 DEF Loaded
    <3> QED BY <3>1, RowsFinite DEF Inv
  <2>3. EndOf(r, c) = SystemPrefix(ms) + Length(c) BY DEF EndOf
  <2> HIDE DEF ms
  <2> QED BY <1>2, <1>4, <2>1, <2>2, <2>3, FittingSummary DEF Inv
<1>5. \E out : ToldOf(out) = ms /\ sent' = [sent EXCEPT ![r] = out]
  <2> HIDE DEF ms
  <2> QED BY <1>2, <1>3, <1>4, ToldOfPlain
<1>6. \A q \in Requests : q # r => pc'[q] = pc[q] BY <1>1, <1>3
<1> QED BY <1>5, <1>6

FaithInv == DOMAIN sent = Requests /\ FaithfulContext

LEMMA FaithStep ==
  ASSUME Inv, ServedInv, FaithInv, [Next]_vars
  PROVE  FaithInv'
<1>1. pc \in [Requests -> Points] /\ messages \in [Requests -> Seq(Told)] BY DEF Inv, TypeInv
<1>2. DOMAIN sent = Requests /\ \A r \in Requests : GoesOut(r) => ToldOf(sent[r]) = messages[r]
  BY DEF FaithInv, FaithfulContext
<1>3. ASSUME DOMAIN sent' = Requests,
             \A q \in Requests : pc'[q] \in {"marking", "sent"} =>
               \/ ToldOf(sent'[q]) = messages'[q]
               \/ pc[q] \in {"marking", "sent"} /\ sent'[q] = sent[q] /\ messages'[q] = messages[q]
      PROVE  FaithInv'
  BY <1>2, <1>3 DEF FaithInv, FaithfulContext, GoesOut
<1>4. ASSUME NEW r \in Requests, Apply(r) PROVE FaithInv'
  <2>1. UNCHANGED messages BY <1>4 DEF Apply
  <2>2. /\ ToldOf(sent'[r]) = messages[r] /\ DOMAIN sent' = Requests
        /\ \A q \in Requests : q # r => sent'[q] = sent[q] /\ pc'[q] = pc[q]
    BY <1>2, <1>4, AppliedFaithful
  <2> QED BY <1>3, <2>1, <2>2
<1>5. ASSUME NEW r \in Requests, Forget(r) PROVE FaithInv'
  BY <1>1, <1>2, <1>3, <1>5 DEF Forget
<1>6. ASSUME NEW r \in Requests, Arrive(r) PROVE FaithInv'
  <2>1. UNCHANGED sent /\ pc[r] = "idle" BY <1>6 DEF Arrive
  <2>2. \A q \in Requests : q # r => pc'[q] = pc[q] /\ messages'[q] = messages[q]
    BY <1>1, <1>6 DEF Arrive
  <2>3. pc'[r] \in {"wanting", "applying"} BY <1>1, <1>6 DEF Arrive
  <2> QED BY <1>2, <1>3, <2>1, <2>2, <2>3
<1>7. ASSUME NEW r \in Requests,
             \/ BeginGeneration(r) \/ GenerateSummary(r) \/ SaveCheckpoint(r)
             \/ GenerationFails(r) \/ MarkUsed(r)
      PROVE  FaithInv'
  <2>1. UNCHANGED <<messages, sent>>
    BY <1>7 DEF BeginGeneration, GenerateSummary, SaveCheckpoint, GenerationFails, MarkUsed
  <2>2. \A q \in Requests : pc'[q] \in {"marking", "sent"} => pc[q] \in {"marking", "sent"}
    BY <1>1, <1>7 DEF BeginGeneration, GenerateSummary, SaveCheckpoint, GenerationFails, MarkUsed
  <2> QED BY <1>2, <1>3, <2>1, <2>2
<1>8. ASSUME LateSave \/ UNCHANGED vars PROVE FaithInv'
  <2>1. UNCHANGED <<pc, messages, sent>> BY <1>8 DEF LateSave, vars
  <2> QED BY <1>2, <1>3, <2>1
<1> QED BY <1>4, <1>5, <1>6, <1>7, <1>8 DEF Next, Serve, Answered, Cancelled

\* With the summary the request tells of the whole conversation: whichever
\* request made the summary, with whatever system message, and whatever media
\* and tool exchanges are omitted behind it, no message is lost and none is
\* told twice (routes.py, _maybe_apply_text_summary_checkpoint).
THEOREM ContextTellsAll == Spec => []FaithfulContext
<1>1. Init => FaithInv BY DEF Init, FaithInv, FaithfulContext, GoesOut
<1>2. Inv /\ ServedInv /\ FaithInv /\ [Next]_vars => FaithInv' BY FaithStep
<1>3. FaithInv => FaithfulContext BY DEF FaithInv
<1> QED BY <1>1, <1>2, <1>3, CheckpointInvariant, ServedInvariant, PTL DEF Spec

-----------------------------------------------------------------------------
(* The tool protocol                                                       *)

\* Message i follows the call at k with nothing but results between them.
Behind(ms, k, i) ==
  /\ k \in 1 .. Len(ms) /\ i \in 1 .. Len(ms) /\ k < i
  /\ IsCall(ms[k])
  /\ \A j \in k + 1 .. i : ms[j].role = "tool"

\* The call at k is that of a group which message i belongs to.
Grouped(ms, k, i) == \E g \in ToolGroups(ms) : g[1] = k /\ i <= g[2]

\* No end of a group is between a call and what is behind it.
LEMMA BehindInGroup ==
  ASSUME NEW S, NEW ms \in Seq(S), NEW k, NEW i, Behind(ms, k, i)
  PROVE  Grouped(ms, k, i)
<1> DEFINE reach == {e \in 1 .. Len(ms) : Behind(ms, k, e)}
<1>1. Len(ms) \in Nat /\ k \in 1 .. Len(ms) /\ i \in reach BY DEF Behind
<1>2. PICK e \in reach : \A j \in reach : j <= e
  <2>1. reach \in SUBSET (1 .. Len(ms)) /\ reach # {} BY <1>1
  <2> HIDE DEF reach
  <2> QED BY <1>1, <2>1, LastOfSome
<1>3. /\ e \in 1 .. Len(ms) /\ k < e /\ IsCall(ms[k])
      /\ \A j \in k + 1 .. e : ms[j].role = "tool"
  BY <1>2 DEF Behind
<1>4. e < Len(ms) => ms[e + 1].role # "tool"
  <2> SUFFICES ASSUME e < Len(ms), ms[e + 1].role = "tool" PROVE FALSE OBVIOUS
  <2>1. e + 1 \in 1 .. Len(ms) /\ k < e + 1 BY <1>1, <1>3
  <2>2. \A j \in k + 1 .. e + 1 : j \in k + 1 .. e \/ j = e + 1 BY <1>1, <1>3
  <2>3. \A j \in k + 1 .. e + 1 : ms[j].role = "tool" BY <1>3, <2>2
  <2>4. e + 1 \in reach BY <1>1, <1>3, <2>1, <2>3 DEF Behind
  <2>5. e + 1 <= e BY <1>2, <2>4
  <2> QED BY <1>3, <2>5
<1>5. <<k, e>> \in ToolGroups(ms)
  BY <1>1, <1>3, <1>4 DEF ToolGroups
<1>6. i <= e BY <1>1, <1>2
<1> QED BY <1>5, <1>6 DEF Grouped

LEMMA GroupBehind ==
  ASSUME NEW ms, NEW g \in ToolGroups(ms), NEW i, g[1] < i, i \in Int, i <= g[2], Len(ms) \in Nat
  PROVE  Behind(ms, g[1], i)
<1>1. /\ g[1] \in 1 .. Len(ms) /\ g[2] \in 1 .. Len(ms)
      /\ IsCall(ms[g[1]]) /\ \A j \in g[1] + 1 .. g[2] : ms[j].role = "tool"
  BY DEF ToolGroups
<1>2. PICK k, e : k = g[1] /\ e = g[2] OBVIOUS
<1>3. i \in 1 .. Len(ms) /\ \A j \in k + 1 .. i : j \in k + 1 .. e BY <1>1, <1>2
<1> QED BY <1>1, <1>2, <1>3 DEF Behind

\* Every result is behind a call that it answers.
Paired(ms) ==
  \A i \in 1 .. Len(ms) : ms[i].role = "tool" =>
    \E k \in 1 .. Len(ms) : Behind(ms, k, i) /\ ms[i].answers \in ms[k].calls

LEMMA NoOrphanPaired ==
  ASSUME NEW S, NEW ms \in Seq(S)
  PROVE  NoOrphanResult(ms) <=> Paired(ms)
<1>1. DOMAIN ms = 1 .. Len(ms) /\ Len(ms) \in Nat OBVIOUS
<1>2. ASSUME NoOrphanResult(ms), NEW i \in 1 .. Len(ms), ms[i].role = "tool"
      PROVE  \E k \in 1 .. Len(ms) : Behind(ms, k, i) /\ ms[i].answers \in ms[k].calls
  <2>1. PICK g \in ToolGroups(ms) : g[1] < i /\ i <= g[2] /\ ms[i].answers \in ms[g[1]].calls
    BY <1>1, <1>2 DEF NoOrphanResult
  <2>2. Behind(ms, g[1], i) BY <1>1, <2>1, GroupBehind
  <2>3. g[1] \in 1 .. Len(ms) BY DEF ToolGroups
  <2> QED BY <2>1, <2>2, <2>3
<1>3. ASSUME Paired(ms), NEW i \in 1 .. Len(ms), ms[i].role = "tool"
      PROVE  \E g \in ToolGroups(ms) : g[1] < i /\ i <= g[2] /\ ms[i].answers \in ms[g[1]].calls
  <2>1. PICK k \in 1 .. Len(ms) : Behind(ms, k, i) /\ ms[i].answers \in ms[k].calls
    BY <1>3 DEF Paired
  <2>2. Grouped(ms, k, i) BY <2>1, BehindInGroup
  <2>3. k < i BY <2>1 DEF Behind
  <2> QED BY <2>1, <2>2, <2>3 DEF Grouped
<1> QED BY <1>1, <1>2, <1>3 DEF NoOrphanResult, Paired

\* No tool exchange goes on across a boundary.
Uncut(ms, end) == \A k, i \in 1 .. Len(ms) : Behind(ms, k, i) => ~(k <= end /\ end < i)

LEMMA UncutGroups ==
  ASSUME NEW S, NEW ms \in Seq(S), NEW end \in Nat
  PROVE  Uncut(ms, end) <=> \A g \in ToolGroups(ms) : ~Crosses(g, end)
<1>1. ASSUME Uncut(ms, end), NEW g \in ToolGroups(ms), Crosses(g, end)
      PROVE  FALSE
  <2>1. g[1] \in 1 .. Len(ms) /\ g[2] \in 1 .. Len(ms) /\ g[1] <= end /\ end < g[2]
    BY <1>1 DEF Crosses, ToolGroups
  <2>2. Behind(ms, g[1], g[2])
    <3>1. g[1] < g[2] /\ g[2] \in Int /\ g[2] <= g[2] BY <2>1
    <3> QED BY <3>1, GroupBehind
  <2> QED BY <1>1, <2>1, <2>2 DEF Uncut
<1>2. ASSUME \A g \in ToolGroups(ms) : ~Crosses(g, end),
             NEW k \in 1 .. Len(ms), NEW i \in 1 .. Len(ms), Behind(ms, k, i), k <= end, end < i
      PROVE  FALSE
  <2>1. PICK g \in ToolGroups(ms) : g[1] = k /\ i <= g[2] BY <1>2, BehindInGroup DEF Grouped
  <2>2. g[2] \in 1 .. Len(ms) BY DEF ToolGroups
  <2>3. Crosses(g, end) BY <1>2, <2>1, <2>2 DEF Crosses
  <2> QED BY <1>2, <2>3
<1> QED BY <1>1, <1>2 DEF Uncut

\* The positions that the boundary is made of.
LEMMA Positions ==
  ASSUME NEW S, NEW ms \in Seq(S), HasSystemPrefix(ms)
  PROVE  /\ SystemPrefix(ms) \in Nat /\ Len(ms) \in Nat /\ SystemPrefix(ms) <= Len(ms)
         /\ TailMessages \in Nat /\ TailMessages > 0
         /\ ActiveCall(ms) \in Nat /\ ActiveCall(ms) <= Len(ms)
         /\ LatestUser(ms, ActiveCall(ms)) \in Nat
         /\ LatestUser(ms, ActiveCall(ms)) <= ActiveCall(ms)
<1>1. ActiveCall(ms) \in 0 .. Len(ms) BY ActiveWithin
<1>2. ActiveCall(ms) \in Nat BY <1>1
<1>3. LatestUser(ms, ActiveCall(ms)) \in 0 .. ActiveCall(ms) BY <1>2, ActiveWithin
<1> QED BY <1>1, <1>3, CheckpointAssumption DEF HasSystemPrefix

\* A safe boundary behind the system messages leaves the protected part alone
\* and cuts no tool exchange.
LEMMA BoundaryUncut ==
  ASSUME NEW ms \in Seq(Told), HasSystemPrefix(ms),
         NEW end \in Nat, end = SafeBoundary(ms, TailMessages), SystemPrefix(ms) < end
  PROVE  /\ Uncut(ms, end) /\ end <= ProtectedFrom(ms, TailMessages)
         /\ ProtectedFrom(ms, TailMessages) \in Nat
         /\ end < Len(ms)
<1> DEFINE start == ProtectedFrom(ms, TailMessages)
           cut == {g \in ToolGroups(ms) : Crosses(g, start)}
<1>1. PICK n, l, t, a, u : n = SystemPrefix(ms) /\ l = Len(ms) /\ t = TailMessages
                            /\ a = ActiveCall(ms) /\ u = LatestUser(ms, ActiveCall(ms))
  OBVIOUS
<1>2. /\ n \in Nat /\ l \in Nat /\ n <= l /\ t \in Nat /\ t > 0
      /\ a \in Nat /\ a <= l /\ u \in Nat /\ u <= a
  BY <1>1, Positions
<1>3. start \in Int /\ (n < start => start < l)
  <2>1. PICK s : s = TailStart(ms, TailMessages) OBVIOUS
  <2>2. s \in Int /\ (s <= n \/ s <= l - t)
    BY <1>1, <1>2, <2>1 DEF TailStart, Larger, Smaller
  <2>3. PICK at : at = ActiveTurnStart(ms) OBVIOUS
  <2>4. at \in Nat BY <1>1, <1>2, <2>3 DEF ActiveTurnStart
  <2>5. PICK first : first = Smaller(Larger(n, s), l) OBVIOUS
  <2>6. first \in Int /\ (n < first => first < l)
    BY <1>2, <2>2, <2>5 DEF Smaller, Larger
  <2>7. start = IF a > n THEN Smaller(first, at - 1) ELSE first
    BY <1>1, <2>1, <2>3, <2>5 DEF ProtectedFrom
  <2> HIDE DEF start
  <2> QED BY <1>2, <2>4, <2>6, <2>7 DEF Smaller
<1> HIDE DEF start
<1>4. CASE cut = {}
  <2>1. end = start BY <1>4 DEF SafeBoundary, start
  <2>2. \A g \in ToolGroups(ms) : ~Crosses(g, end) BY <1>4, <2>1
  <2>3. Uncut(ms, end) BY <2>2, UncutGroups
  <2> QED BY <1>1, <1>3, <2>1, <2>3 DEF start
<1>5. CASE cut # {}
  <2>1. PICK g : g \in cut /\ end = Larger(n, g[1] - 1)
    <3>1. (CHOOSE g \in cut : TRUE) \in cut BY <1>5
    <3>2. end = Larger(n, (CHOOSE g \in cut : TRUE)[1] - 1)
      BY <1>1, <1>5 DEF SafeBoundary, start
    <3> QED BY <3>1, <3>2
  <2>2. PICK k : k = g[1] OBVIOUS
  <2>3. k \in 1 .. Len(ms) /\ IsCall(ms[k]) /\ k <= start BY <2>1, <2>2 DEF ToolGroups, Crosses
  <2>4. end = k - 1 BY <1>1, <1>2, <2>1, <2>2, <2>3 DEF Larger
  <2>5. ASSUME NEW h \in ToolGroups(ms), Crosses(h, end) PROVE FALSE
    <3>1. h[1] \in 1 .. Len(ms) /\ h[2] \in 1 .. Len(ms) /\ h[1] <= end /\ end < h[2]
      BY <2>5 DEF Crosses, ToolGroups
    <3>2. h[1] < k /\ k <= h[2] BY <2>3, <2>4, <3>1
    <3>3. Behind(ms, h[1], k) BY <2>3, <3>2, GroupBehind
    <3>4. k \in h[1] + 1 .. k BY <2>3, <3>1, <3>2
    <3>5. ms[k].role = "tool" BY <3>3, <3>4 DEF Behind
    <3> QED BY <2>3, <3>5 DEF IsCall
  <2>6. Uncut(ms, end) BY <2>5, UncutGroups
  <2>7. end < start BY <1>3, <2>3, <2>4
  <2>8. start \in Nat /\ n < start /\ end < l BY <1>1, <1>2, <1>3, <2>7
  <2> QED BY <1>1, <1>3, <2>6, <2>7, <2>8 DEF start
<1> QED BY <1>4, <1>5

\* What the protocol reads of a message.
SameCalls(m, o) == o.role = m.role /\ o.calls = m.calls /\ o.answers = m.answers

\* Behind the first e messages of a, b goes on as a does, d places later.
GoesOn(a, b, e, d) ==
  /\ Len(a) \in Nat /\ e \in Nat /\ d \in Int /\ e + d \in Nat /\ Len(b) = Len(a) + d
  /\ \A j \in e + 1 .. Len(a) : SameCalls(a[j], b[j + d])

LEMMA BehindGoesOn ==
  ASSUME NEW a, NEW b, NEW e, NEW d, GoesOn(a, b, e, d),
         NEW k, NEW i, e < k, Behind(a, k, i)
  PROVE  Behind(b, k + d, i + d)
<1>1. /\ Len(a) \in Nat /\ e \in Nat /\ d \in Int /\ e + d \in Nat /\ Len(b) = Len(a) + d
      /\ \A j \in e + 1 .. Len(a) : SameCalls(a[j], b[j + d])
  BY DEF GoesOn
<1>2. /\ k \in 1 .. Len(a) /\ i \in 1 .. Len(a) /\ k < i /\ IsCall(a[k])
      /\ \A j \in k + 1 .. i : a[j].role = "tool"
  BY DEF Behind
<1>3. PICK l : l = Len(a) OBVIOUS
<1>4. /\ k + d \in 1 .. Len(b) /\ i + d \in 1 .. Len(b) /\ k + d < i + d
      /\ k \in e + 1 .. Len(a)
  BY <1>1, <1>2, <1>3
<1>5. IsCall(b[k + d]) BY <1>1, <1>2, <1>4 DEF SameCalls, IsCall
<1>6. ASSUME NEW j \in (k + d) + 1 .. i + d PROVE b[j].role = "tool"
  <2>1. j - d \in k + 1 .. i /\ j - d \in e + 1 .. Len(a) /\ (j - d) + d = j
    BY <1>1, <1>2, <1>3
  <2>2. a[j - d].role = "tool" /\ SameCalls(a[j - d], b[(j - d) + d]) BY <1>1, <1>2, <2>1
  <2> QED BY <2>1, <2>2 DEF SameCalls
<1> QED BY <1>4, <1>5, <1>6 DEF Behind

\* The protocol stays intact where nothing is cut and no result comes in front.
LEMMA PairedGoesOn ==
  ASSUME NEW a, NEW b, NEW e, NEW d, GoesOn(a, b, e, d), Paired(a), Uncut(a, e),
         \A i \in 1 .. e + d : b[i].role # "tool"
  PROVE  Paired(b)
<1>1. /\ Len(a) \in Nat /\ e \in Nat /\ d \in Int /\ e + d \in Nat /\ Len(b) = Len(a) + d
      /\ \A j \in e + 1 .. Len(a) : SameCalls(a[j], b[j + d])
  BY DEF GoesOn
<1> SUFFICES ASSUME NEW i \in 1 .. Len(b), b[i].role = "tool"
             PROVE  \E k \in 1 .. Len(b) : Behind(b, k, i) /\ b[i].answers \in b[k].calls
  BY DEF Paired
<1>2. PICK l : l = Len(a) OBVIOUS
<1>3. i - d \in e + 1 .. Len(a) /\ i - d \in 1 .. Len(a) /\ (i - d) + d = i
  <2>1. ~(i <= e + d) BY <1>1
  <2> QED BY <1>1, <1>2, <2>1
<1>4. SameCalls(a[i - d], b[i]) BY <1>1, <1>3
<1>5. PICK k \in 1 .. Len(a) : Behind(a, k, i - d) /\ a[i - d].answers \in a[k].calls
  BY <1>3, <1>4 DEF Paired, SameCalls
<1>6. e < k BY <1>1, <1>3, <1>5 DEF Uncut
<1>7. Behind(b, k + d, i)
  <2>1. Behind(b, k + d, (i - d) + d) BY <1>5, <1>6, BehindGoesOn
  <2> QED BY <1>3, <2>1
<1>8. SameCalls(a[k], b[k + d])
  <2>1. k \in e + 1 .. Len(a) BY <1>1, <1>2, <1>6
  <2> QED BY <1>1, <2>1
<1>9. k + d \in 1 .. Len(b) BY <1>7 DEF Behind
<1> QED BY <1>4, <1>5, <1>7, <1>8, <1>9 DEF SameCalls

\* A request is one system message and a client's conversation.
Arrival(ms, r, h) == ms = <<SystemOf(r)>> \o h

LEMMA ArrivedParts ==
  ASSUME NEW r \in Requests, NEW h \in Histories, NEW ms, Arrival(ms, r, h)
  PROVE  /\ h \in Seq(Told) /\ ms \in Seq(Told) /\ HasSystemPrefix(ms)
         /\ SystemPrefix(ms) = 1 /\ Len(ms) = Len(h) + 1
         /\ ms[1].role = "system" /\ \A i \in 1 .. Len(h) : h[i].role # "system" /\ ms[i + 1] = h[i]
         /\ Conversation(ms) = h
<1>1. h \in Seq({h[i] : i \in DOMAIN h}) /\ \A i \in DOMAIN h : h[i].role # "system"
  BY CheckpointAssumption
<1>2. {h[i] : i \in DOMAIN h} \subseteq Told BY DEF Told
<1>3. h \in Seq(Told) BY <1>1, <1>2, SeqMonotonic
<1>4. SystemOf(r) \in Told BY DEF Told
<1>0. ms = <<SystemOf(r)>> \o h BY DEF Arrival
<1>5. ms \in Seq(Told) /\ HasSystemPrefix(ms) BY <1>0, ArrivedMessages
<1>6. /\ Len(ms) = Len(h) + 1 /\ ms[1] = SystemOf(r)
      /\ \A i \in 1 .. Len(h) : ms[i + 1] = h[i]
  BY <1>0, <1>3, <1>4
<1>7. ms[1].role = "system"
  <2>1. SystemOf(r).role = "system" BY DEF SystemOf, Message
  <2> QED BY <1>6, <2>1
<1>8. \A i \in 1 .. Len(h) : h[i].role # "system" BY <1>1, <1>3
<1>9. SystemPrefix(ms) = 1
  <2> DEFINE P(n) == /\ \A i \in 1 .. n : ms[i].role = "system"
                     /\ n < Len(ms) => ms[n + 1].role # "system"
  <2>1. Len(h) \in Nat BY <1>3
  <2>2. 1 \in 0 .. Len(ms) /\ P(1) BY <1>6, <1>7, <1>8, <2>1
  <2>3. ASSUME NEW n \in 0 .. Len(ms), P(n) PROVE n = 1
    <3>1. CASE n = 0
      <4>1. ms[0 + 1].role # "system" BY <1>6, <2>1, <2>3, <3>1
      <4> QED BY <1>7, <4>1
    <3>2. CASE n >= 2
      <4>1. 2 \in 1 .. n /\ 1 \in 1 .. Len(h) BY <1>6, <2>1, <3>2
      <4>2. ms[2].role = "system" BY <2>3, <4>1
      <4>3. ms[2] = h[1] /\ h[1].role # "system"
        <5>1. PICK i \in 1 .. Len(h) : i = 1 BY <4>1
        <5>2. ms[i + 1] = h[i] /\ h[i].role # "system" BY <1>6, <1>8
        <5>3. i + 1 = 2 BY <5>1
        <5> QED BY <5>1, <5>2, <5>3
      <4> QED BY <4>2, <4>3
    <3> QED BY <3>1, <3>2
  <2> HIDE DEF P
  <2>4. (CHOOSE n \in 0 .. Len(ms) : P(n)) = 1
    <3>1. \E n \in 0 .. Len(ms) : P(n) BY <2>2
    <3>2. /\ (CHOOSE n \in 0 .. Len(ms) : P(n)) \in 0 .. Len(ms)
          /\ P(CHOOSE n \in 0 .. Len(ms) : P(n))
      BY <3>1, Zenon
    <3> QED BY <2>3, <3>2
  <2> QED BY <2>4 DEF SystemPrefix, P
<1>10. Conversation(ms) = h
  <2>1. PICK m, l : m = SubSeq(ms, 2, l) /\ l = Len(ms) OBVIOUS
  <2>2. Len(h) \in Nat /\ l = Len(h) + 1 BY <1>3, <1>6, <2>1
  <2>3. /\ m \in Seq(Told) /\ Len(m) = Len(h)
        /\ \A i \in 1 .. Len(h) : m[i] = ms[i + 1]
    BY <1>5, <1>6, <2>1, <2>2
  <2>4. m = h BY <1>3, <1>6, <2>3, SeqEqual
  <2> QED BY <1>9, <2>1, <2>4 DEF Conversation
<1> QED BY <1>3, <1>5, <1>6, <1>7, <1>8, <1>9, <1>10

LEMMA ArrivedGoesOn ==
  ASSUME NEW r \in Requests, NEW h \in Histories, NEW ms, Arrival(ms, r, h)
  PROVE  GoesOn(h, ms, 0, 1)
<1>1. /\ h \in Seq(Told) /\ Len(ms) = Len(h) + 1 /\ \A i \in 1 .. Len(h) : ms[i + 1] = h[i]
  BY ArrivedParts
<1>2. Len(h) \in Nat /\ \A j \in 0 + 1 .. Len(h) : j \in 1 .. Len(h) BY <1>1
<1>3. \A j \in 0 + 1 .. Len(h) : SameCalls(h[j], ms[j + 1]) BY <1>1, <1>2 DEF SameCalls
<1> QED BY <1>1, <1>2, <1>3 DEF GoesOn

\* Every client sends the results of a call right behind it.
Following == \A h \in Histories : ResultsFollowCalls(h)

\* In whichever conversation p is a part of, no exchange goes on behind it.
Cuttable(p) ==
  \A h \in Histories : IsPrefixOf(p, h) /\ Len(p) < Len(h) => Uncut(h, Len(p))

\* Where one conversation may be cut, every other one with the same beginning
\* may: how many results follow a call is known from the call.
LEMMA BoundaryCuttable ==
  ASSUME Following, NEW r \in Requests, NEW h \in Histories, NEW ms, Arrival(ms, r, h)
  PROVE  Cuttable(SubSeq(ms, SystemPrefix(ms) + 1, SafeBoundary(ms, TailMessages)))
<1>1. /\ h \in Seq(Told) /\ ms \in Seq(Told) /\ HasSystemPrefix(ms)
      /\ SystemPrefix(ms) = 1 /\ Len(ms) = Len(h) + 1
      /\ \A i \in 1 .. Len(h) : ms[i + 1] = h[i]
  BY ArrivedParts
<1>2. PICK end : end = SafeBoundary(ms, TailMessages) OBVIOUS
<1>3. end \in Int /\ end <= Len(ms) /\ Len(h) \in Nat BY <1>1, <1>2, BoundaryWithin
<1>4. PICK p : p = SubSeq(ms, 2, end) OBVIOUS
<1>5. p = SubSeq(ms, SystemPrefix(ms) + 1, SafeBoundary(ms, TailMessages)) BY <1>1, <1>2, <1>4
<1>6. CASE end <= 1
  <2>1. Len(p) = 0 BY <1>1, <1>3, <1>4, <1>6
  <2>2. \A g \in Histories : Uncut(g, 0) BY DEF Uncut
  <2> QED BY <1>5, <2>1, <2>2 DEF Cuttable
<1>7. CASE end > 1
  <2>1. PICK n \in Nat : n = end - 1 /\ n > 0 BY <1>3, <1>7
  <2>2. Uncut(ms, end) /\ end < Len(ms)
    <3>1. end \in Nat /\ SystemPrefix(ms) < end BY <1>1, <1>3, <1>7
    <3> QED BY <1>1, <1>2, <3>1, BoundaryUncut
  <2>3. /\ p \in Seq(Told) /\ Len(p) = n
        /\ \A j \in 1 .. n : p[j] = h[j]
    <3>1. /\ p \in Seq(Told) /\ Len(p) = n /\ \A j \in 1 .. n : p[j] = ms[j + 1]
      BY <1>1, <1>3, <1>4, <2>1
    <3>2. \A j \in 1 .. n : j \in 1 .. Len(h) BY <1>1, <1>3, <2>1, <2>2
    <3> QED BY <1>1, <3>1, <3>2
  <2>4. SUFFICES ASSUME NEW g \in Histories, IsPrefixOf(p, g), n < Len(g),
                        NEW k \in 1 .. Len(g), NEW i \in 1 .. Len(g), Behind(g, k, i), k <= n, n < i
                 PROVE  FALSE
    BY <1>5, <2>3 DEF Cuttable, Uncut
  <2>5. g \in Seq(Told)
    <3>1. PICK o : Arrival(o, r, g) BY DEF Arrival
    <3> QED BY <3>1, ArrivedParts
  <2>6. \A j \in 1 .. n : g[j] = h[j]
    <3>1. p = SubSeq(g, 1, n) BY <2>3, <2>4 DEF IsPrefixOf
    <3>2. \A j \in 1 .. n : SubSeq(g, 1, n)[j] = g[j] BY <2>1, <2>4, <2>5
    <3> QED BY <2>3, <3>1, <3>2
  <2>7. k \in 1 .. n /\ k \in 1 .. Len(h) BY <1>1, <1>3, <2>1, <2>2, <2>4
  <2>8. g[k] = h[k] /\ IsCall(h[k]) BY <2>4, <2>6, <2>7 DEF Behind
  <2>9. PICK m : m = Cardinality(h[k].calls) OBVIOUS
  <2>10. /\ m \in Nat
         /\ \A j \in k + 1 .. Smaller(Len(h), k + m) : h[j].role = "tool"
    <3>1. ResultsFollowCalls(h) BY DEF Following
    <3>2. k \in DOMAIN h BY <1>1, <2>7
    <3>3. /\ IsFiniteSet(h[k].calls)
          /\ \A j \in k + 1 .. Smaller(Len(h), k + Cardinality(h[k].calls)) : h[j].role = "tool"
      BY <2>8, <3>1, <3>2 DEF ResultsFollowCalls
    <3> QED BY <2>9, <3>3, FS_CardinalityType
  <2>11. n < k + m
    <3>1. PICK e \in ToolGroups(g) : e[1] = k /\ i <= e[2] BY <2>4, <2>5, BehindInGroup DEF Grouped
    <3>2. e[2] - e[1] <= Cardinality(g[e[1]].calls) BY DEF Following, ResultsFollowCalls
    <3>3. e[2] \in 1 .. Len(g) /\ Len(g) \in Nat BY <2>5 DEF ToolGroups
    <3>4. PICK x : x = e[2] OBVIOUS
    <3>5. x \in Nat /\ x - k <= m /\ i <= x BY <2>8, <2>9, <3>1, <3>2, <3>3, <3>4
    <3> QED BY <2>1, <2>4, <2>7, <2>10, <3>5
  <2>12. PICK l : l = Len(h) OBVIOUS
  <2>13. n + 1 \in k + 1 .. Smaller(Len(h), k + m)
    BY <1>1, <1>3, <2>1, <2>2, <2>7, <2>10, <2>11, <2>12 DEF Smaller
  <2>14. n + 1 \in 1 .. Len(h) /\ k < n + 1 BY <1>1, <1>3, <2>1, <2>2, <2>7, <2>12
  <2>15. ASSUME NEW j \in k + 1 .. n + 1 PROVE h[j].role = "tool"
    <3>1. CASE j = n + 1 BY <2>10, <2>13, <3>1
    <3>2. CASE j # n + 1
      <4>1. j \in k + 1 .. i /\ j \in 1 .. n BY <2>1, <2>4, <2>7, <3>2
      <4> QED BY <2>4, <2>6, <4>1 DEF Behind
    <3> QED BY <3>1, <3>2
  <2>16. Behind(h, k, n + 1) BY <2>7, <2>8, <2>14, <2>15 DEF Behind
  <2>17. Behind(ms, k + 1, (n + 1) + 1)
    <3>1. 0 < k BY <2>7
    <3>2. GoesOn(h, ms, 0, 1) BY ArrivedGoesOn
    <3>3. PICK e, d, x : e = 0 /\ d = 1 /\ x = n + 1 OBVIOUS
    <3>4. GoesOn(h, ms, e, d) /\ e < k /\ Behind(h, k, x) BY <2>16, <3>1, <3>2, <3>3
    <3>5. Behind(ms, k + d, x + d) BY ONLY <3>4, BehindGoesOn
    <3> QED BY <3>3, <3>5
  <2>18. k + 1 \in 1 .. Len(ms) /\ (n + 1) + 1 \in 1 .. Len(ms) BY <2>17 DEF Behind
  <2>19. k + 1 <= end /\ end < (n + 1) + 1 BY <1>3, <2>1, <2>7
  <2> QED BY <2>2, <2>17, <2>18, <2>19 DEF Uncut
<1> QED BY <1>3, <1>6, <1>7

Cuts == {c \in Sound : Cuttable(c.prefix)}

\* Whoever may read a checkpoint, now or later, it ends between two exchanges
\* of every conversation that it fits.
CutInv == store \in Seq(Cuts) /\ late \subseteq Cuts /\ made \in [Requests -> Cuts]

LEMMA NothingCut == NoCheckpoint \in Cuts
<1>1. Len(NoCheckpoint.prefix) = 0 BY DEF NoCheckpoint
<1>2. \A h \in Histories : Uncut(h, 0) BY DEF Uncut
<1> QED BY <1>1, <1>2, NothingSound DEF Cuts, Cuttable

LEMMA MadeIsCut ==
  ASSUME Following, Inv, ServedInv, NEW r \in Requests, GenerateSummary(r)
  PROVE  \E c \in Cuts : made' = [made EXCEPT ![r] = c]
<1>1. pc[r] = "generating" BY DEF GenerateSummary
<1>2. PICK c : c = [prefix |-> SubSeq(messages[r], SystemPrefix(messages[r]) + 1, SafeEnd(r)),
                    covers |-> PriorCovers(r) \o AddedMessages(r)]
  OBVIOUS
<1>3. c \in Sound BY <1>1, <1>2, MadeIsSound
<1>4. PICK h \in Histories : Arrival(messages[r], r, h)
  BY <1>1 DEF ServedInv, Arrival
<1>5. Cuttable(SubSeq(messages[r], SystemPrefix(messages[r]) + 1, SafeBoundary(messages[r], TailMessages)))
  BY <1>4, BoundaryCuttable
<1>6. c.prefix = SubSeq(messages[r], SystemPrefix(messages[r]) + 1, SafeBoundary(messages[r], TailMessages))
  BY <1>2 DEF SafeEnd
<1>7. c \in Cuts BY <1>3, <1>5, <1>6 DEF Cuts
<1>8. made' = [made EXCEPT ![r] = c] BY <1>2 DEF GenerateSummary
<1> QED BY <1>7, <1>8

LEMMA CutStep ==
  ASSUME Following, Inv, ServedInv, CutInv, [Next]_vars
  PROVE  CutInv'
<1>1. store \in Seq(Cuts) /\ late \subseteq Cuts /\ made \in [Requests -> Cuts] BY DEF CutInv
<1>2. \A r \in Requests : made[r] \in Cuts BY <1>1
<1>3. \A c \in Rows : c \in Cuts BY <1>1 DEF Rows
<1>4. \A c \in Cuts : Saved(c) \in Seq(Cuts) /\ Touched(c) \in Seq(Cuts)
  BY <1>1, SavedRows, TouchedRows
<1>5. ASSUME NEW r \in Requests, Forget(r) PROVE made' \in [Requests -> Cuts]
  BY <1>1, <1>5, NothingCut DEF Forget
<1>6. ASSUME NEW r \in Requests, GenerateSummary(r) PROVE CutInv'
  <2>1. PICK c \in Cuts : made' = [made EXCEPT ![r] = c] BY <1>6, MadeIsCut
  <2>2. made' \in [Requests -> Cuts] BY <1>1, <2>1
  <2>3. UNCHANGED <<store, late>> BY <1>6 DEF GenerateSummary
  <2> QED BY <1>1, <2>2, <2>3 DEF CutInv
<1>7. ASSUME NEW r \in Requests, SaveCheckpoint(r) PROVE CutInv'
  <2>1. store' \in Seq(Cuts) /\ UNCHANGED late BY <1>1, <1>2, <1>4, <1>7 DEF SaveCheckpoint
  <2>2. made' \in [Requests -> Cuts] BY <1>1, <1>7, NothingCut DEF SaveCheckpoint
  <2> QED BY <1>1, <2>1, <2>2 DEF CutInv
<1>8. ASSUME NEW r \in Requests, MarkUsed(r) PROVE CutInv'
  <2>1. store' \in Seq(Cuts) BY <1>1, <1>3, <1>4, <1>8 DEF MarkUsed
  <2>2. UNCHANGED <<late, made>> BY <1>8 DEF MarkUsed
  <2> QED BY <1>1, <2>1, <2>2 DEF CutInv
<1>9. ASSUME NEW r \in Requests, Cancelled(r) PROVE CutInv'
  <2>1. store' \in Seq(Cuts) /\ late' \subseteq Cuts BY <1>1, <1>2, <1>9 DEF Cancelled
  <2>2. made' \in [Requests -> Cuts] BY <1>5, <1>9 DEF Cancelled
  <2> QED BY <2>1, <2>2 DEF CutInv
<1>10. ASSUME NEW r \in Requests, Answered(r) PROVE CutInv'
  <2>1. store' \in Seq(Cuts) /\ late' \subseteq Cuts BY <1>1, <1>10 DEF Answered
  <2>2. made' \in [Requests -> Cuts] BY <1>5, <1>10 DEF Answered
  <2> QED BY <2>1, <2>2 DEF CutInv
<1>11. ASSUME LateSave PROVE CutInv'
  <2>1. store' \in Seq(Cuts) /\ late' \subseteq Cuts BY <1>1, <1>4, <1>11 DEF LateSave
  <2>2. UNCHANGED made BY <1>11 DEF LateSave
  <2> QED BY <1>1, <2>1, <2>2 DEF CutInv
<1>12. ASSUME NEW r \in Requests,
              Arrive(r) \/ BeginGeneration(r) \/ GenerationFails(r) \/ Apply(r)
       PROVE  UNCHANGED <<store, late, made>>
  BY <1>12 DEF Arrive, BeginGeneration, GenerationFails, Apply
<1>13. ASSUME UNCHANGED <<store, late, made>> PROVE CutInv'
  BY <1>1, <1>13 DEF CutInv
<1>14. ASSUME UNCHANGED vars PROVE UNCHANGED <<store, late, made>> BY <1>14 DEF vars
<1> QED
  BY <1>6, <1>7, <1>8, <1>9, <1>10, <1>11, <1>12, <1>13, <1>14 DEF Next, Serve

-----------------------------------------------------------------------------
(* What the compactions leave alone                                        *)

\* Among the first n messages the latest one of a user's, if there is one.
LEMMA LatestUserIs ==
  ASSUME NEW ms, NEW n \in Nat, NEW u, u = LatestUser(ms, n)
  PROVE  /\ u # 0 => u \in 1 .. n /\ ms[u].role = "user"
         /\ \A j \in 1 .. n : ms[j].role = "user" => j <= u
<1> DEFINE users == {i \in 1 .. n : ms[i].role = "user"}
           Last(i) == \A j \in users : j <= i
<1>1. CASE users = {} BY <1>1 DEF LatestUser
<1>2. CASE users # {}
  <2>1. \E i \in users : Last(i)
    <3>1. users \in SUBSET (1 .. n) OBVIOUS
    <3> HIDE DEF users
    <3> QED BY <1>2, <3>1, LastOfSome
  <2>2. u = CHOOSE i \in users : Last(i) BY <1>2 DEF LatestUser
  <2> HIDE DEF Last
  <2>3. u \in users /\ Last(u) BY <2>1, <2>2
  <2> QED BY <2>3 DEF Last
<1> QED BY <1>1, <1>2

\* The call to continue is that of the group that ends the conversation.
LEMMA ActiveIs ==
  ASSUME NEW ms, Len(ms) \in Nat
  PROVE  /\ \A g \in ToolGroups(ms) : g[2] = Len(ms) => ActiveCall(ms) = g[1]
         /\ ActiveCall(ms) # 0 => \E g \in ToolGroups(ms) : g[2] = Len(ms) /\ ActiveCall(ms) = g[1]
<1> DEFINE active == {g \in ToolGroups(ms) : g[2] = Len(ms)}
<1>1. ASSUME NEW g \in active, NEW h \in active, g[1] < h[1] PROVE FALSE
  <2>1. h[1] \in 1 .. Len(ms) /\ h[1] < h[2] /\ h[2] = Len(ms) /\ IsCall(ms[h[1]])
    BY DEF ToolGroups
  <2>2. g[1] \in 1 .. Len(ms) /\ g[2] = Len(ms) BY DEF ToolGroups
  <2>3. h[1] \in Int /\ h[1] <= g[2] BY <2>1, <2>2
  <2>4. Behind(ms, g[1], h[1]) BY <1>1, <2>3, GroupBehind
  <2>5. h[1] \in g[1] + 1 .. h[1] BY <1>1, <2>1, <2>2
  <2>6. ms[h[1]].role = "tool" BY <2>4, <2>5 DEF Behind
  <2> QED BY <2>1, <2>6 DEF IsCall
<1>2. \A g, h \in active : g[1] = h[1]
  <2>1. \A g \in active : g[1] \in 1 .. Len(ms) BY DEF ToolGroups
  <2> HIDE DEF active
  <2> TAKE g \in active, h \in active
  <2>2. g[1] \in Int /\ h[1] \in Int BY <2>1
  <2>3. ~(g[1] < h[1]) /\ ~(h[1] < g[1]) BY <1>1
  <2> QED BY <2>2, <2>3
<1>3. ASSUME active # {}
      PROVE  (CHOOSE g \in active : TRUE) \in active /\ ActiveCall(ms) = (CHOOSE g \in active : TRUE)[1]
  BY <1>3 DEF ActiveCall
<1>4. active = {} => ActiveCall(ms) = 0 BY DEF ActiveCall
<1> QED BY <1>2, <1>3, <1>4

LEMMA OmittedCalls ==
  ASSUME NEW m, Entire(m), NEW o \in {m, Omit(m), Omit(Omit(m))}
  PROVE  SameCalls(m, o)
<1> DEFINE Full(x) == Fields(m.role, m.name, m.media, m.calls, m.answers, m.covers, x)
<1>1. m = Full(FALSE) BY DEF Entire, Fields
<1>2. \A x : Omit(Full(x)) = Full(TRUE) BY FieldsOmitted
<1>3. \A x : Full(x).role = m.role /\ Full(x).calls = m.calls /\ Full(x).answers = m.answers
  BY DEF Fields
<1> HIDE DEF Full
<1>4. o \in {Full(FALSE), Full(TRUE)} BY <1>1, <1>2
<1> QED BY <1>3, <1>4 DEF SameCalls

\* A compaction keeps the messages in their places, and their calls.
LEMMA CompactionSame ==
  ASSUME NEW ms \in Seq(Msgs), NEW out \in Compactions(ms)
  PROVE  /\ out \in Seq({out[i] : i \in DOMAIN out}) /\ Len(out) = Len(ms)
         /\ \A i \in 1 .. Len(ms) : SameCalls(ms[i], out[i])
<1>1. \A i \in 1 .. Len(ms) : Entire(ms[i])
  <2>1. \A i \in 1 .. Len(ms) : ms[i] \in Msgs OBVIOUS
  <2>2. \A m \in Msgs : Entire(m) BY MessagesEntire DEF Msgs
  <2> QED BY <2>1, <2>2
<1> DEFINE mo == MediaOmitted(ms)
<1>2. DOMAIN mo = 1 .. Len(ms) /\ \A i \in 1 .. Len(ms) : mo[i] \in {ms[i], Omit(ms[i])}
  BY DEF MediaOmitted, Omit
<1>3. PICK groups \in SUBSET OldGroups(ms, TailMessages) : out = ToolsOmitted(mo, groups)
  BY DEF Compactions
<1> HIDE DEF mo
<1>4. /\ out = [i \in 1 .. Len(ms) |-> out[i]]
      /\ \A i \in 1 .. Len(ms) : out[i] \in {mo[i], Omit(mo[i])}
  BY <1>2, <1>3 DEF ToolsOmitted, Omit
<1>5. \A i \in 1 .. Len(ms) : out[i] \in {ms[i], Omit(ms[i]), Omit(Omit(ms[i]))}
  BY <1>2, <1>4
<1>6. \A i \in 1 .. Len(ms) : SameCalls(ms[i], out[i])
  BY <1>1, <1>5, OmittedCalls
<1>7. out \in Seq({out[i] : i \in DOMAIN out}) /\ Len(out) = Len(ms)
  <2>1. PICK n \in Nat : n = Len(ms) OBVIOUS
  <2>2. PICK O : O = {out[i] : i \in DOMAIN out} OBVIOUS
  <2>3. out \in [1 .. n -> O] BY <1>4, <2>1, <2>2
  <2>4. out \in Seq(O) /\ Len(out) = n BY <2>1, <2>3
  <2> QED BY <2>1, <2>2, <2>4
<1> QED BY <1>6, <1>7

\* The exchange that ends the conversation goes out as it is, and so does the
\* message that was asked last.
LEMMA CompactionKeeps ==
  ASSUME NEW ms \in Seq(Msgs), HasSystemPrefix(ms), NEW g \in ToolGroups(ms), g[2] = Len(ms),
         NEW out \in Compactions(ms), NEW i \in 1 .. Len(ms),
         \/ g[1] <= i
         \/ ms[i].role = "user" /\ \A j \in 1 .. Len(ms) : i < j => ms[j].role # "user"
  PROVE  out[i] = ms[i]
<1>1. PICK a, l : a = g[1] /\ l = Len(ms) OBVIOUS
<1>2. /\ a \in 1 .. Len(ms) /\ a < l /\ l \in Nat /\ IsCall(ms[a])
      /\ \A j \in a + 1 .. l : ms[j].role = "tool"
  BY <1>1 DEF ToolGroups
<1>3. ActiveCall(ms) = a BY <1>1, <1>2, ActiveIs
<1>4. PICK u : u = LatestUser(ms, Len(ms)) OBVIOUS
<1>5. u # 0 => u \in 1 .. l /\ ms[u].role = "user" BY <1>1, <1>2, <1>4, LatestUserIs
<1>6. u < a
  <2>1. CASE u = 0 BY <1>2, <2>1
  <2>2. CASE u # 0
    <3>1. ms[u].role # "tool" /\ ~IsCall(ms[u]) BY <1>5, <2>2 DEF IsCall
    <3>2. u # a /\ ~(u \in a + 1 .. l) BY <1>2, <3>1
    <3> QED BY <1>2, <1>5, <2>2, <3>2
  <2> QED BY <2>1, <2>2
<1>7. ~(i < u)
  <2>1. CASE a <= i BY <1>2, <1>5, <1>6, <2>1
  <2>2. CASE ms[i].role = "user" /\ \A j \in 1 .. Len(ms) : i < j => ms[j].role # "user"
    BY <1>1, <1>5, <2>2
  <2> QED BY <1>1, <2>1, <2>2
<1> DEFINE mo == MediaOmitted(ms)
<1>8. DOMAIN mo = 1 .. Len(ms) /\ mo[i] = ms[i] BY <1>4, <1>7 DEF MediaOmitted
<1>9. PICK groups \in SUBSET OldGroups(ms, TailMessages) : out = ToolsOmitted(mo, groups)
  BY DEF Compactions
<1> HIDE DEF mo
<1>10. ASSUME NEW h \in groups, h[1] <= i, i <= h[2] PROVE FALSE
  <2>1. h \in ToolGroups(ms) /\ h[2] <= TailStart(ms, TailMessages) BY <1>9 DEF OldGroups
  <2>2. h[1] \in 1 .. Len(ms) /\ h[2] \in 1 .. Len(ms) BY <2>1 DEF ToolGroups
  <2>3. TailStart(ms, TailMessages) \in Int /\ TailStart(ms, TailMessages) <= a - 1
    <3>1. PICK n, t : n = SystemPrefix(ms) /\ t = TailMessages OBVIOUS
    <3>2. n \in Nat /\ t \in Nat BY <3>1, Positions
    <3>3. a # 0 /\ a \in Nat BY <1>2
    <3>4. TailStart(ms, TailMessages) = Smaller(Larger(n, l - t), a - 1)
      BY <1>1, <1>3, <3>1, <3>3 DEF TailStart
    <3> QED BY <1>2, <3>2, <3>3, <3>4 DEF Smaller, Larger
  <2>4. CASE a <= i BY <1>2, <1>10, <2>1, <2>2, <2>3, <2>4
  <2>5. CASE ms[i].role = "user"
    <3>1. CASE i = h[1]
      <4>1. IsCall(ms[i]) BY <2>1, <3>1 DEF ToolGroups
      <4> QED BY <2>5, <4>1 DEF IsCall
    <3>2. CASE i # h[1]
      <4>1. h[1] < i /\ Len(ms) \in Nat /\ i \in Int BY <1>10, <2>2, <3>2
      <4>2. Behind(ms, h[1], i) BY <1>10, <2>1, <4>1, GroupBehind
      <4>3. i \in h[1] + 1 .. i BY <2>2, <4>1
      <4>4. ms[i].role = "tool" BY <4>2, <4>3 DEF Behind
      <4> QED BY <2>5, <4>4
    <3> QED BY <3>1, <3>2
  <2> QED BY <1>1, <2>4, <2>5
<1>11. out[i] = mo[i] BY <1>8, <1>9, <1>10 DEF ToolsOmitted
<1> QED BY <1>8, <1>11

\* The conversation with a summary in place of the messages before end.
LEMMA SummarizedParts ==
  ASSUME NEW ms \in Seq(Told), SystemPrefix(ms) = 1, ms[1].role = "system",
         NEW end \in Nat, 1 < end, end <= Len(ms),
         NEW covers \in Seq(Told), NEW base, base = Summarized(ms, covers, end)
  PROVE  /\ base \in Seq(Msgs) /\ HasSystemPrefix(base)
         /\ \A i \in 1 .. 2 : base[i].role # "tool"
         /\ \A j \in end + 1 .. Len(ms) : base[j + (2 - end)] = ms[j]
         /\ GoesOn(ms, base, end, 2 - end)
<1> DEFINE front == SubSeq(ms, 1, 1) \o <<SummaryMessage(covers)>>
           tail == SubSeq(ms, end + 1, Len(ms))
<1>1. PICK l \in Nat : l = Len(ms) OBVIOUS
<1>2. Told \subseteq Msgs /\ SummaryMessage(covers) \in Msgs BY DEF Msgs
<1>3. ms[1] \in Msgs /\ \A j \in 1 .. l : ms[j] \in Msgs
  BY <1>1, <1>2
<1>4. PICK b : b = SummaryMessage(covers) OBVIOUS
<1>5. /\ tail \in Seq(Msgs) /\ Len(tail) = l - end
      /\ \A j \in 1 .. l - end : tail[j] = ms[j + end]
  <2>1. /\ tail \in Seq(Told) /\ Len(tail) = l - end
        /\ \A j \in 1 .. l - end : tail[j] = ms[j + end]
    BY <1>1
  <2> QED BY <1>2, <2>1, SeqMonotonic
<1>6. base = front \o tail BY <1>1 DEF Summarized
<1> HIDE DEF tail
<1>7. front \in Seq(Msgs) /\ Len(front) = 2 /\ front[1] = ms[1] /\ front[2] = b
  <2> DEFINE one == SubSeq(ms, 1, 1)
             two == <<b>>
  <2>1. one \in Seq(Told) /\ Len(one) = 1 /\ one[1] = ms[1] BY <1>1
  <2>2. two \in Seq(Msgs) /\ Len(two) = 1 /\ two[1] = b BY <1>2, <1>4
  <2>3. one \in Seq(Msgs) BY <1>2, <2>1, SeqMonotonic
  <2>4. front = one \o two BY <1>4
  <2> HIDE DEF one, two, front
  <2>5. PICK x \in Seq(Msgs), y \in Seq(Msgs) : x = one /\ y = two BY <2>2, <2>3
  <2>6. /\ x \o y \in Seq(Msgs) /\ Len(x \o y) = Len(x) + Len(y)
        /\ \A i \in 1 .. Len(x) + Len(y) :
              (x \o y)[i] = IF i <= Len(x) THEN x[i] ELSE y[i - Len(x)]
    BY ONLY x \in Seq(Msgs), y \in Seq(Msgs), ConcatProperties
  <2>7. PICK z : z = x \o y OBVIOUS
  <2>8. Len(x) = 1 /\ Len(y) = 1 /\ x[1] = ms[1] /\ y[1] = b BY <2>1, <2>2, <2>5
  <2>9. /\ z \in Seq(Msgs) /\ Len(z) = 2
        /\ \A i \in 1 .. 2 : z[i] = IF i <= 1 THEN x[i] ELSE y[i - 1]
    BY ONLY <2>6, <2>7, <2>8
  <2>10. z[1] = x[1] /\ z[2] = y[1] BY ONLY <2>9
  <2>11. front = z BY <2>4, <2>5, <2>7
  <2> QED BY ONLY <2>8, <2>9, <2>10, <2>11
<1> HIDE DEF front
<1>8. /\ base \in Seq(Msgs) /\ Len(base) = 2 + (l - end)
      /\ base[1] = ms[1] /\ base[2] = b
      /\ \A j \in 3 .. 2 + (l - end) : base[j] = tail[j - 2]
  <2>1. /\ front \o tail \in Seq(Msgs) /\ Len(front \o tail) = Len(front) + Len(tail)
        /\ \A i \in 1 .. Len(front) + Len(tail) :
              (front \o tail)[i] = IF i <= Len(front) THEN front[i] ELSE tail[i - Len(front)]
    BY <1>5, <1>7, ConcatProperties
  <2>2. \A i \in 1 .. 2 + (l - end) : base[i] = IF i <= 2 THEN front[i] ELSE tail[i - 2]
    BY <1>5, <1>6, <1>7, <2>1
  <2>3. 1 \in 1 .. 2 + (l - end) /\ 2 \in 1 .. 2 + (l - end) BY <1>1
  <2>4. \A j \in 3 .. 2 + (l - end) : j \in 1 .. 2 + (l - end) /\ ~(j <= 2) BY <1>1
  <2>5. Len(base) = 2 + (l - end) /\ base \in Seq(Msgs) BY <1>5, <1>6, <1>7, <2>1
  <2> QED BY <1>7, <2>2, <2>3, <2>4, <2>5
<1>9. b.role = "assistant"
  <2>1. Message("assistant", "summary", FALSE, {}, "").role = "assistant" BY DEF Message
  <2> QED BY <1>4, <2>1 DEF SummaryMessage, Message
<1>10. HasSystemPrefix(base)
  <2> DEFINE P(n) == /\ \A i \in 1 .. n : base[i].role = "system"
                     /\ n < Len(base) => base[n + 1].role # "system"
  <2>1. \E n \in 0 .. Len(base) : P(n)
    <3>1. PICK n : n = 1 OBVIOUS
    <3>2. n \in 0 .. Len(base) /\ n + 1 = 2 BY <1>1, <1>8, <3>1
    <3>3. \A i \in 1 .. n : base[i] = ms[1] BY <1>8, <3>1
    <3>4. P(n) BY <1>8, <1>9, <3>2, <3>3
    <3> QED BY <3>2, <3>4
  <2> HIDE DEF P
  <2>2. (CHOOSE n \in 0 .. Len(base) : P(n)) \in 0 .. Len(base) BY <2>1, Zenon
  <2> QED BY <2>2 DEF HasSystemPrefix, SystemPrefix, P
<1>11. \A i \in 1 .. 2 : base[i].role # "tool" BY <1>8, <1>9
<1>12. ASSUME NEW j \in end + 1 .. Len(ms) PROVE base[j + (2 - end)] = ms[j]
  <2>1. j + (2 - end) \in 3 .. 2 + (l - end) /\ (j + (2 - end)) - 2 = j - end BY <1>1
  <2>2. j - end \in 1 .. l - end /\ (j - end) + end = j BY <1>1
  <2>3. base[j + (2 - end)] = tail[j - end] BY <1>8, <2>1
  <2> QED BY <1>5, <2>2, <2>3
<1>13. GoesOn(ms, base, end, 2 - end)
  <2>1. Len(base) = Len(ms) + (2 - end) /\ 2 - end \in Int /\ end + (2 - end) \in Nat
    BY <1>1, <1>8
  <2>2. \A j \in end + 1 .. Len(ms) : SameCalls(ms[j], base[j + (2 - end)])
    BY <1>12 DEF SameCalls
  <2> QED BY <1>1, <2>1, <2>2 DEF GoesOn
<1> QED BY <1>8, <1>10, <1>11, <1>12, <1>13

\* A checkpoint that fits cuts no exchange of the conversation it is put into.
LEMMA FittingUncut ==
  ASSUME NEW r \in Requests, NEW h \in Histories, NEW ms, Arrival(ms, r, h),
         NEW c \in Cuts, IsPrefixOf(c.prefix, Conversation(ms)),
         NEW end, end = 1 + Length(c), MayEndAt(ms, TailMessages, end)
  PROVE  /\ end \in Nat /\ 1 < end /\ end < Len(ms) /\ Uncut(ms, end)
         /\ end <= ProtectedFrom(ms, TailMessages) /\ ProtectedFrom(ms, TailMessages) \in Nat
<1>1. /\ h \in Seq(Told) /\ ms \in Seq(Told) /\ HasSystemPrefix(ms)
      /\ SystemPrefix(ms) = 1 /\ Len(ms) = Len(h) + 1 /\ ms[1].role = "system"
      /\ \A i \in 1 .. Len(h) : ms[i + 1] = h[i]
      /\ Conversation(ms) = h
  BY ArrivedParts
<1>2. PICK n, p : n = Len(p) /\ p = c.prefix OBVIOUS
<1>3. n \in Nat /\ end = n + 1 /\ IsPrefixOf(p, h) /\ Cuttable(p)
  BY <1>1, <1>2 DEF Cuts, Sound, Length
<1>4. PICK safe : safe = SafeBoundary(ms, TailMessages) OBVIOUS
<1>5. safe \in Nat /\ 1 < end /\ end <= safe
  BY <1>1, <1>3, <1>4, BoundaryWithin DEF MayEndAt
<1>6. /\ safe <= ProtectedFrom(ms, TailMessages) /\ ProtectedFrom(ms, TailMessages) \in Nat
      /\ safe < Len(ms)
  <2>1. SystemPrefix(ms) < safe BY <1>1, <1>3, <1>5
  <2> QED BY <1>1, <1>4, <1>5, <2>1, BoundaryUncut
<1>7. Len(h) \in Nat /\ end < Len(ms) /\ n < Len(h) BY <1>1, <1>3, <1>5, <1>6
<1>8. Uncut(h, n) BY <1>2, <1>3, <1>7 DEF Cuttable
<1>9. GoesOn(ms, h, 1, -1)
  <2>1. \A j \in 1 + 1 .. Len(ms) : j - 1 \in 1 .. Len(h) /\ (j - 1) + 1 = j BY <1>1, <1>7
  <2>2. \A j \in 1 + 1 .. Len(ms) : ms[j] = h[j - 1] BY <1>1, <2>1
  <2>3. \A j \in 1 + 1 .. Len(ms) : j + (-1) = j - 1 BY <2>1
  <2>4. \A j \in 1 + 1 .. Len(ms) : SameCalls(ms[j], h[j + (-1)]) BY <2>2, <2>3 DEF SameCalls
  <2>5. Len(ms) \in Nat /\ Len(h) = Len(ms) + (-1) /\ 1 + (-1) \in Nat /\ 1 \in Nat /\ -1 \in Int
    BY <1>1, <1>7
  <2> QED BY <2>4, <2>5 DEF GoesOn
<1>10. ASSUME NEW k \in 1 .. Len(ms), NEW i \in 1 .. Len(ms), Behind(ms, k, i), k <= end, end < i
       PROVE  FALSE
  <2>1. ms[1].role = "system" /\ IsCall(ms[k]) BY <1>1, <1>10 DEF Behind
  <2>2. 1 < k
    <3>1. k # 1 BY <2>1 DEF IsCall
    <3> QED BY <3>1
  <2>3. PICK e, d : e = 1 /\ d = -1 OBVIOUS
  <2>4. GoesOn(ms, h, e, d) /\ e < k /\ Behind(ms, k, i) BY <1>9, <1>10, <2>2, <2>3
  <2>5. Behind(h, k + d, i + d) BY ONLY <2>4, BehindGoesOn
  <2>6. k + d \in 1 .. Len(h) /\ i + d \in 1 .. Len(h) BY <2>5 DEF Behind
  <2>7. k + d <= n /\ n < i + d BY <1>3, <1>10, <2>3
  <2> QED BY <1>8, <2>5, <2>6, <2>7 DEF Uncut
<1>11. Uncut(ms, end) BY <1>10 DEF Uncut
<1>12. end <= ProtectedFrom(ms, TailMessages) BY <1>3, <1>5, <1>6
<1> QED BY <1>3, <1>5, <1>6, <1>7, <1>11, <1>12

\* A compaction takes no result from its call.
LEMMA CompactionPaired ==
  ASSUME NEW base \in Seq(Msgs), Paired(base), NEW out \in Compactions(base)
  PROVE  NoOrphanResult(out)
<1>1. /\ out \in Seq({out[i] : i \in DOMAIN out}) /\ Len(out) = Len(base)
      /\ \A i \in 1 .. Len(base) : SameCalls(base[i], out[i])
  BY CompactionSame
<1>2. GoesOn(base, out, 0, 0)
  <2>1. \A j \in 0 + 1 .. Len(base) : j \in 1 .. Len(base) /\ j + 0 = j OBVIOUS
  <2> QED BY <1>1, <2>1 DEF GoesOn
<1>3. Uncut(base, 0) BY DEF Uncut
<1>4. PICK e, d : e = 0 /\ d = 0 OBVIOUS
<1>5. /\ GoesOn(base, out, e, d) /\ Uncut(base, e)
      /\ \A i \in 1 .. e + d : out[i].role # "tool"
  BY <1>2, <1>3, <1>4
<1>6. Paired(out) BY <1>5, PairedGoesOn
<1> QED BY <1>1, <1>6, NoOrphanPaired

\* What is sent of a conversation whose first e messages have a summary.
SentBehind(ms, base, e, d) ==
  /\ GoesOn(ms, base, e, d)
  /\ \A j \in e + 1 .. Len(ms) : base[j + d] = ms[j]
  /\ ActiveCall(ms) # 0 =>
       /\ e < ActiveCall(ms)
       /\ LatestUser(ms, ActiveCall(ms)) # 0 => e < LatestUser(ms, ActiveCall(ms))

\* The exchange under way goes out as it is, with the message it answers.
LEMMA ContinuationGoesOn ==
  ASSUME NEW ms \in Seq(Told), NEW base \in Seq(Msgs), HasSystemPrefix(base),
         NEW e, NEW d, SentBehind(ms, base, e, d), NEW out \in Compactions(base)
  PROVE  ContinuationKept(ms, out)
<1> SUFFICES ASSUME ActiveCall(ms) # 0
             PROVE  /\ \A i \in ActiveCall(ms) .. Len(ms) : out[Len(out) - Len(ms) + i] = ms[i]
                    /\ LatestUser(ms, ActiveCall(ms)) # 0 =>
                         out[Len(out) - Len(ms) + LatestUser(ms, ActiveCall(ms))]
                           = ms[LatestUser(ms, ActiveCall(ms))]
  BY DEF ContinuationKept
<1>1. PICK a, u, l, m : /\ a = ActiveCall(ms) /\ u = LatestUser(ms, ActiveCall(ms))
                        /\ l = Len(ms) /\ m = Len(base)
  OBVIOUS
<1>2. /\ GoesOn(ms, base, e, d) /\ \A j \in e + 1 .. Len(ms) : base[j + d] = ms[j]
      /\ e < a /\ (u # 0 => e < u)
  BY <1>1 DEF SentBehind
<1>3. l \in Nat /\ e \in Nat /\ d \in Int /\ e + d \in Nat /\ m = l + d BY <1>1, <1>2 DEF GoesOn
<1>4. PICK g \in ToolGroups(ms) : g[2] = l /\ g[1] = a
  <2>1. Len(ms) \in Nat BY <1>1, <1>3
  <2> QED BY <1>1, <2>1, ActiveIs
<1>5. a \in 1 .. l /\ a < l /\ \A j \in a + 1 .. l : ms[j].role = "tool"
  BY <1>1, <1>4 DEF ToolGroups
<1>6. Behind(ms, a, l)
  <2>1. g[1] < l /\ l \in Int /\ l <= g[2] /\ Len(ms) \in Nat BY <1>1, <1>3, <1>4, <1>5
  <2> QED BY <1>4, <2>1, GroupBehind
<1>7. Behind(base, a + d, l + d) BY <1>2, <1>6, BehindGoesOn
<1>8. PICK f \in ToolGroups(base) : f[1] = a + d /\ f[2] = Len(base)
  <2>1. Grouped(base, a + d, l + d) BY <1>7, BehindInGroup
  <2>2. PICK f \in ToolGroups(base) : f[1] = a + d /\ l + d <= f[2] BY <2>1 DEF Grouped
  <2>3. f[2] \in 1 .. Len(base) BY DEF ToolGroups
  <2>4. f[2] = Len(base) BY <1>1, <1>3, <2>2, <2>3
  <2> QED BY <2>2, <2>4
<1>9. Len(out) = m BY <1>1, CompactionSame
<1>10. ASSUME NEW i \in a .. l
       PROVE  out[Len(out) - Len(ms) + i] = ms[i]
  <2>1. Len(out) - Len(ms) + i = i + d /\ i + d \in 1 .. m /\ i \in e + 1 .. l /\ a + d <= i + d
    BY <1>1, <1>2, <1>3, <1>5, <1>9
  <2>2. out[i + d] = base[i + d] BY <1>1, <1>8, <2>1, CompactionKeeps
  <2>3. base[i + d] = ms[i] BY <1>1, <1>2, <2>1
  <2> QED BY <2>1, <2>2, <2>3
<1>11. ASSUME u # 0
       PROVE  out[Len(out) - Len(ms) + u] = ms[u]
  <2>1. u \in 1 .. a /\ ms[u].role = "user" /\ \A j \in 1 .. a : ms[j].role = "user" => j <= u
    <3>1. a \in Nat BY <1>5
    <3> QED BY <1>1, <1>11, <3>1, LatestUserIs
  <2>2. Len(out) - Len(ms) + u = u + d /\ u + d \in 1 .. m /\ u \in e + 1 .. l
    BY <1>1, <1>2, <1>3, <1>5, <1>9, <1>11, <2>1
  <2>3. base[u + d] = ms[u] BY <1>1, <1>2, <2>2
  <2>4. ASSUME NEW j \in 1 .. m, u + d < j PROVE base[j].role # "user"
    <3>1. j - d \in e + 1 .. l /\ (j - d) + d = j /\ u < j - d
      BY <1>2, <1>3, <1>11, <2>1, <2>4
    <3>2. base[j] = ms[j - d] BY <1>1, <1>2, <3>1
    <3>3. CASE j - d <= a
      <4>1. j - d \in 1 .. a /\ ~(j - d <= u) BY <1>3, <2>1, <3>1, <3>3
      <4> QED BY <2>1, <3>2, <4>1
    <3>4. CASE ~(j - d <= a)
      <4>1. j - d \in a + 1 .. l BY <1>3, <1>5, <3>1, <3>4
      <4> QED BY <1>5, <3>2, <4>1
    <3> QED BY <3>3, <3>4
  <2>5. out[u + d] = base[u + d]
    <3>1. PICK x : x = u + d OBVIOUS
    <3>2. x \in 1 .. Len(base) /\ base[x].role = "user" BY <1>1, <2>1, <2>2, <2>3, <3>1
    <3>3. \A j \in 1 .. Len(base) : x < j => base[j].role # "user" BY <1>1, <2>4, <3>1
    <3>4. out[x] = base[x] BY <1>8, <3>2, <3>3, CompactionKeeps
    <3> QED BY <3>1, <3>4
  <2> QED BY <2>2, <2>3, <2>5
<1> QED BY <1>1, <1>10, <1>11

\* The protected part begins with the message that the exchange answers.
LEMMA ProtectsExchange ==
  ASSUME NEW ms \in Seq(Told), HasSystemPrefix(ms), SystemPrefix(ms) = 1, ms[1].role = "system",
         ActiveCall(ms) # 0, NEW end \in Nat, end <= ProtectedFrom(ms, TailMessages)
  PROVE  /\ end < ActiveCall(ms)
         /\ LatestUser(ms, ActiveCall(ms)) # 0 => end < LatestUser(ms, ActiveCall(ms))
<1>1. PICK a, u, l, t : /\ a = ActiveCall(ms) /\ u = LatestUser(ms, ActiveCall(ms))
                        /\ l = Len(ms) /\ t = TailMessages
  OBVIOUS
<1>2. a \in Nat /\ a <= l /\ u \in Nat /\ u <= a /\ l \in Nat /\ t \in Nat
  BY <1>1, Positions
<1>3. a > 1
  <2>1. PICK g \in ToolGroups(ms) : g[1] = a BY <1>1, <1>2, ActiveIs
  <2>2. a \in 1 .. l /\ IsCall(ms[a]) BY <1>1, <2>1 DEF ToolGroups
  <2>3. a # 1 BY <2>2 DEF IsCall
  <2> QED BY <2>2, <2>3
<1>4. u # 0 => u > 1
  <2>1. u # 0 => u \in 1 .. a /\ ms[u].role = "user" BY <1>1, <1>2, LatestUserIs
  <2>2. u # 1 BY <2>1
  <2> QED BY <2>1, <2>2
<1>5. PICK s : s = TailStart(ms, TailMessages) OBVIOUS
<1>6. s \in Int BY <1>1, <1>2, <1>5 DEF TailStart, Larger, Smaller
<1>7. PICK at : at = ActiveTurnStart(ms) OBVIOUS
<1>8. at \in Nat /\ at <= a /\ (u # 0 => at = u)
  BY <1>1, <1>2, <1>4, <1>7 DEF ActiveTurnStart
<1>9. PICK first : first = Smaller(Larger(1, s), l) OBVIOUS
<1>10. first \in Int BY <1>2, <1>6, <1>9 DEF Smaller, Larger
<1>11. ProtectedFrom(ms, TailMessages) = Smaller(first, at - 1)
  BY <1>1, <1>3, <1>5, <1>7, <1>9 DEF ProtectedFrom
<1>12. end <= at - 1 BY <1>8, <1>10, <1>11 DEF Smaller
<1>13. end < a /\ (u # 0 => end < u) BY <1>2, <1>8, <1>12
<1> QED BY <1>1, <1>13

LEMMA PlainIntact ==
  ASSUME Following, NEW r \in Requests, NEW h \in Histories, NEW ms, Arrival(ms, r, h)
  PROVE  /\ Paired(ms)
         /\ \A out \in Compactions(ms) : NoOrphanResult(out) /\ ContinuationKept(ms, out)
<1>1. /\ h \in Seq(Told) /\ ms \in Seq(Told) /\ HasSystemPrefix(ms) /\ ms[1].role = "system"
  BY ArrivedParts
<1>2. Told \subseteq Msgs BY DEF Msgs
<1>3. ms \in Seq(Msgs) BY <1>1, <1>2, SeqMonotonic
<1>4. Paired(ms)
  <2>1. NoOrphanResult(h) BY DEF Following, ResultsFollowCalls
  <2>2. Paired(h) BY <1>1, <2>1, NoOrphanPaired
  <2>3. Uncut(h, 0) BY DEF Uncut
  <2>4. GoesOn(h, ms, 0, 1) BY ArrivedGoesOn
  <2>5. PICK e, d : e = 0 /\ d = 1 OBVIOUS
  <2>6. \A i \in 1 .. e + d : ms[i].role # "tool" BY <1>1, <2>5
  <2> QED BY <2>2, <2>3, <2>4, <2>5, <2>6, PairedGoesOn
<1>5. SentBehind(ms, ms, 0, 0)
  <2>1. \A j \in 0 + 1 .. Len(ms) : j + 0 = j BY <1>1
  <2>2. GoesOn(ms, ms, 0, 0) BY <1>1, <2>1 DEF GoesOn, SameCalls
  <2>3. ActiveCall(ms) \in Nat /\ LatestUser(ms, ActiveCall(ms)) \in Nat BY <1>1, Positions
  <2> QED BY <2>1, <2>2, <2>3 DEF SentBehind
<1>6. ASSUME NEW out \in Compactions(ms)
      PROVE  NoOrphanResult(out) /\ ContinuationKept(ms, out)
  <2>1. NoOrphanResult(out) BY <1>3, <1>4, CompactionPaired
  <2>2. PICK e, d : e = 0 /\ d = 0 OBVIOUS
  <2>3. SentBehind(ms, ms, e, d) BY <1>5, <2>2
  <2>4. ContinuationKept(ms, out) BY <1>1, <1>3, <2>3, ContinuationGoesOn
  <2> QED BY <2>1, <2>4
<1> QED BY <1>4, <1>6

LEMMA SummarizedIntact ==
  ASSUME Following, NEW r \in Requests, NEW h \in Histories, NEW ms, Arrival(ms, r, h),
         NEW c \in Cuts, IsPrefixOf(c.prefix, Conversation(ms)),
         NEW end, end = 1 + Length(c), MayEndAt(ms, TailMessages, end),
         NEW out \in Compactions(Summarized(ms, c.covers, end))
  PROVE  NoOrphanResult(out) /\ ContinuationKept(ms, out)
<1>1. /\ ms \in Seq(Told) /\ HasSystemPrefix(ms) /\ SystemPrefix(ms) = 1 /\ ms[1].role = "system"
  BY ArrivedParts
<1>2. /\ end \in Nat /\ 1 < end /\ end < Len(ms) /\ Uncut(ms, end)
      /\ end <= ProtectedFrom(ms, TailMessages)
  BY FittingUncut
<1>3. Paired(ms) BY PlainIntact
<1>4. PICK covers, base : /\ covers \in Seq(Told) /\ covers = c.covers
                          /\ base = Summarized(ms, c.covers, end)
  <2>1. PICK covers : covers \in Seq(Told) /\ covers = c.covers BY DEF Cuts, Sound
  <2>2. PICK base : base = Summarized(ms, c.covers, end) OBVIOUS
  <2> QED BY <2>1, <2>2
<1>5. /\ base \in Seq(Msgs) /\ HasSystemPrefix(base)
      /\ \A i \in 1 .. 2 : base[i].role # "tool"
      /\ \A j \in end + 1 .. Len(ms) : base[j + (2 - end)] = ms[j]
      /\ GoesOn(ms, base, end, 2 - end)
  <2>1. end <= Len(ms) BY <1>1, <1>2
  <2>2. base = Summarized(ms, covers, end) BY <1>4
  <2> QED BY SMTT(20), <1>1, <1>2, <1>4, <2>1, <2>2, SummarizedParts
<1>6. PICK d : d = 2 - end /\ end + d = 2 BY <1>2
<1>7. Paired(base)
  <2>1. GoesOn(ms, base, end, d) /\ \A i \in 1 .. end + d : base[i].role # "tool" BY <1>5, <1>6
  <2> QED BY <1>2, <1>3, <2>1, PairedGoesOn
<1>8. SentBehind(ms, base, end, d)
  <2>1. GoesOn(ms, base, end, d) /\ \A j \in end + 1 .. Len(ms) : base[j + d] = ms[j] BY <1>5, <1>6
  <2>2. ActiveCall(ms) # 0 =>
          /\ end < ActiveCall(ms)
          /\ LatestUser(ms, ActiveCall(ms)) # 0 => end < LatestUser(ms, ActiveCall(ms))
    BY <1>1, <1>2, ProtectsExchange
  <2> QED BY <2>1, <2>2 DEF SentBehind
<1>9. out \in Compactions(base) BY <1>4
<1>10. NoOrphanResult(out) BY <1>5, <1>7, <1>9, CompactionPaired
<1>11. ContinuationKept(ms, out) BY <1>1, <1>5, <1>8, <1>9, ContinuationGoesOn
<1> QED BY <1>10, <1>11

LEMMA AppliedIntact ==
  ASSUME Following, Inv, ServedInv, CutInv, DOMAIN sent = Requests, NEW r \in Requests, Apply(r)
  PROVE  /\ NoOrphanResult(sent'[r]) /\ ContinuationKept(messages[r], sent'[r])
         /\ DOMAIN sent' = Requests
         /\ \A q \in Requests : q # r => sent'[q] = sent[q] /\ pc'[q] = pc[q]
<1>1. pc[r] = "applying" /\ pc \in [Requests -> Points] BY DEF Apply, Inv, TypeInv
<1>2. PICK h \in Histories : Arrival(messages[r], r, h)
  BY <1>1 DEF ServedInv, Arrival
<1>3. SystemPrefix(messages[r]) = 1 BY <1>2, ArrivedParts
<1>4. PICK loaded \in {Loaded(Candidates(r)), {}} :
        \/ \E c \in LongestMatch(messages[r], loaded) :
             /\ MayEndAt(messages[r], TailMessages, EndOf(r, c))
             /\ \E out \in Compactions(Summarized(messages[r], c.covers, EndOf(r, c))) :
                  sent' = [sent EXCEPT ![r] = out]
             /\ pc' = [pc EXCEPT ![r] = "marking"]
        \/ /\ \E out \in Compactions(messages[r]) : sent' = [sent EXCEPT ![r] = out]
           /\ pc' = [pc EXCEPT ![r] = "sent"]
  BY DEF Apply
<1>5. ASSUME NEW c \in LongestMatch(messages[r], loaded),
             MayEndAt(messages[r], TailMessages, EndOf(r, c)),
             NEW out \in Compactions(Summarized(messages[r], c.covers, EndOf(r, c)))
      PROVE  NoOrphanResult(out) /\ ContinuationKept(messages[r], out)
  <2>1. c \in loaded /\ IsPrefixOf(c.prefix, Conversation(messages[r])) BY DEF LongestMatch
  <2>2. c \in Cuts
    <3>1. c \in Rows BY <2>1 DEF Loaded
    <3> QED BY <3>1 DEF Rows, CutInv
  <2>3. EndOf(r, c) = 1 + Length(c) BY <1>3 DEF EndOf
  <2>4. PICK end : end = 1 + Length(c) OBVIOUS
  <2>5. /\ MayEndAt(messages[r], TailMessages, end)
        /\ out \in Compactions(Summarized(messages[r], c.covers, end))
    BY <1>5, <2>3, <2>4
  <2> QED BY <1>2, <2>1, <2>2, <2>4, <2>5, SummarizedIntact
<1>6. \A out \in Compactions(messages[r]) : NoOrphanResult(out) /\ ContinuationKept(messages[r], out)
  BY <1>2, PlainIntact
<1>7. \E out : /\ NoOrphanResult(out) /\ ContinuationKept(messages[r], out)
               /\ sent' = [sent EXCEPT ![r] = out]
  BY <1>4, <1>5, <1>6
<1>8. \A q \in Requests : q # r => pc'[q] = pc[q] BY <1>1, <1>4
<1> QED BY <1>7, <1>8

IntactInv == DOMAIN sent = Requests /\ ProtocolIntact

LEMMA IntactStep ==
  ASSUME Following, Inv, ServedInv, CutInv, IntactInv, [Next]_vars
  PROVE  IntactInv'
<1>1. pc \in [Requests -> Points] /\ messages \in [Requests -> Seq(Told)] BY DEF Inv, TypeInv
<1>2. /\ DOMAIN sent = Requests
      /\ \A r \in Requests : GoesOut(r) => NoOrphanResult(sent[r]) /\ ContinuationKept(messages[r], sent[r])
  BY DEF IntactInv, ProtocolIntact
<1>3. ASSUME DOMAIN sent' = Requests,
             \A q \in Requests : pc'[q] \in {"marking", "sent"} =>
               \/ NoOrphanResult(sent'[q]) /\ ContinuationKept(messages'[q], sent'[q])
               \/ pc[q] \in {"marking", "sent"} /\ sent'[q] = sent[q] /\ messages'[q] = messages[q]
      PROVE  IntactInv'
  BY <1>2, <1>3 DEF IntactInv, ProtocolIntact, GoesOut
<1>4. ASSUME NEW r \in Requests, Apply(r) PROVE IntactInv'
  <2>1. UNCHANGED messages BY <1>4 DEF Apply
  <2>2. /\ NoOrphanResult(sent'[r]) /\ ContinuationKept(messages[r], sent'[r])
        /\ DOMAIN sent' = Requests
        /\ \A q \in Requests : q # r => sent'[q] = sent[q] /\ pc'[q] = pc[q]
    BY <1>2, <1>4, AppliedIntact
  <2> QED BY <1>3, <2>1, <2>2
<1>5. ASSUME NEW r \in Requests, Forget(r) PROVE IntactInv'
  BY <1>1, <1>2, <1>3, <1>5 DEF Forget
<1>6. ASSUME NEW r \in Requests, Arrive(r) PROVE IntactInv'
  <2>1. UNCHANGED sent /\ pc[r] = "idle" BY <1>6 DEF Arrive
  <2>2. \A q \in Requests : q # r => pc'[q] = pc[q] /\ messages'[q] = messages[q]
    BY <1>1, <1>6 DEF Arrive
  <2>3. pc'[r] \in {"wanting", "applying"} BY <1>1, <1>6 DEF Arrive
  <2> QED BY <1>2, <1>3, <2>1, <2>2, <2>3
<1>7. ASSUME NEW r \in Requests,
             \/ BeginGeneration(r) \/ GenerateSummary(r) \/ SaveCheckpoint(r)
             \/ GenerationFails(r) \/ MarkUsed(r)
      PROVE  IntactInv'
  <2>1. UNCHANGED <<messages, sent>>
    BY <1>7 DEF BeginGeneration, GenerateSummary, SaveCheckpoint, GenerationFails, MarkUsed
  <2>2. \A q \in Requests : pc'[q] \in {"marking", "sent"} => pc[q] \in {"marking", "sent"}
    BY <1>1, <1>7 DEF BeginGeneration, GenerateSummary, SaveCheckpoint, GenerationFails, MarkUsed
  <2> QED BY <1>2, <1>3, <2>1, <2>2
<1>8. ASSUME LateSave \/ UNCHANGED vars PROVE IntactInv'
  <2>1. UNCHANGED <<pc, messages, sent>> BY <1>8 DEF LateSave, vars
  <2> QED BY <1>2, <1>3, <2>1
<1> QED BY <1>4, <1>5, <1>6, <1>7, <1>8 DEF Next, Serve, Answered, Cancelled

\* Where every client sends the results of a call right behind it, the tool
\* protocol of what goes out is intact and the exchange under way is complete,
\* whichever conversation the summary was made for and whatever the tail cuts
\* (context_window.py, build_text_summary_compaction_preview).
THEOREM ToolProtocolIntact ==
  ASSUME \A h \in Histories : ResultsFollowCalls(h)
  PROVE  Spec => []ProtocolIntact
<1>1. Following BY DEF Following
<1>2. Init => CutInv /\ IntactInv
  <2> SUFFICES ASSUME Init PROVE CutInv /\ IntactInv OBVIOUS
  <2>1. CutInv
    <3>1. store \in Seq(Cuts) /\ late \subseteq Cuts BY DEF Init
    <3>2. made \in [Requests -> Cuts] BY NothingCut DEF Init
    <3> QED BY <3>1, <3>2 DEF CutInv
  <2>2. IntactInv BY DEF Init, IntactInv, ProtocolIntact, GoesOut
  <2> QED BY <2>1, <2>2
<1>3. Inv /\ ServedInv /\ CutInv /\ IntactInv /\ [Next]_vars => CutInv' /\ IntactInv'
  BY <1>1, CutStep, IntactStep
<1>4. IntactInv => ProtocolIntact BY DEF IntactInv
<1> QED BY <1>2, <1>3, <1>4, CheckpointInvariant, ServedInvariant, PTL DEF Spec
=============================================================================
