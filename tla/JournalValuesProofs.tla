-------------------------- MODULE JournalValuesProofs --------------------------
(***************************************************************************)
(* What the journal of an agent process says of the context, for any keys, *)
(* writes, crashes and failing disks: types, what recovery finds           *)
(* (Recoverable), what a rewind rebuilds (RewindExact) and that the two    *)
(* readers of a journal agree (EnginesAgree).                              *)
(*                                                                         *)
(* Both readers are folds over the entries (FoldTheorems): the first part  *)
(* says what one more entry, and a checkpoint somewhere, do to them.  The  *)
(* second part is the inductive invariant: it relates the live value of a  *)
(* key, the writes of it that have no entry yet, and its history since.    *)
(***************************************************************************)
EXTENDS ProcessJournalProofs, SequenceTheorems

-----------------------------------------------------------------------------
(* Entries and the readers of a journal *)

Rebuilding == INSTANCE FoldTheorems WITH Op <- Replayed
Updating == INSTANCE FoldTheorems WITH Op <- Updated

Talks == SUBSET (Events \union {"note"})
Saved(n) == [context : [Keys -> 0 .. n], talk : Talks, interrupted : SUBSET Events]
Notes == {"recovered", "run_interrupted", "rewind"}

\* Entries whose values are at most n.
Entries(n) ==
    {Update(k, v) : k \in Keys, v \in 0 .. n} \union {Checkpoint(s) : s \in Saved(n)}
        \union {Note(t) : t \in Notes}

\* Updates over a context.
Replay(base, s) == FoldLeft(Updated, base, s)

Latest(j) == Max(CheckpointsOf(j))
Base(j) == j[Latest(j)]
After(j) == SubSeq(j, Latest(j) + 1, Len(j))

LEMMA ReconstructIs == \A s : Reconstruct(s) = Rebuilding!Fold(Empty, s)
BY DEF Reconstruct, FoldLeft, MapThenFoldSet, Max, Rebuilding!Fold, Rebuilding!FoldLeft,
       Rebuilding!MapThenFoldSet, Rebuilding!Max

LEMMA ReplayIs == \A base, s : Replay(base, s) = Updating!Fold(base, s)
BY DEF Replay, FoldLeft, MapThenFoldSet, Max, Updating!Fold, Updating!FoldLeft,
       Updating!MapThenFoldSet, Updating!Max

LEMMA ReadersEmpty == Reconstruct(<<>>) = Empty /\ \A base : Replay(base, <<>>) = base
BY ReconstructIs, ReplayIs, Rebuilding!FoldEmpty, Updating!FoldEmpty

LEMMA ReconstructAppend ==
    ASSUME NEW E, NEW s \in Seq(E), NEW e \in E
    PROVE  Reconstruct(Append(s, e)) = Replayed(Reconstruct(s), e)
BY ReconstructIs, Rebuilding!FoldAppend

LEMMA ReplayAppend ==
    ASSUME NEW base, NEW E, NEW s \in Seq(E), NEW e \in E
    PROVE  Replay(base, Append(s, e)) = Updated(Replay(base, s), e)
BY ReplayIs, Updating!FoldAppend

LEMMA EntryIs ==
    ASSUME NEW n \in Nat, NEW e \in Entries(n)
    PROVE  \/ e.type = "context_update" /\ e.key \in Keys /\ e.value \in 0 .. n
           \/ e.type = "checkpoint" /\ e.state \in Saved(n)
           \/ e.type \in Notes
BY DEF Entries, Update, Checkpoint, Note

LEMMA UpdatedIs ==
    ASSUME NEW n \in Nat, NEW e \in Entries(n), NEW c \in [Keys -> 0 .. n]
    PROVE  /\ Updated(c, e) \in [Keys -> 0 .. n]
           /\ \A k \in Keys : Updated(c, e)[k] =
                 IF e.type = "context_update" /\ e.key = k THEN e.value ELSE c[k]
<1>1. CASE e.type = "context_update"
  BY <1>1, EntryIs DEF Updated, Notes
<1>2. CASE e.type # "context_update"
  BY <1>2 DEF Updated
<1> QED BY <1>1, <1>2

State(n) == [context : [Keys -> 0 .. n], talk : Talks]

LEMMA ReplayedIs ==
    ASSUME NEW n \in Nat, NEW e \in Entries(n), NEW x \in State(n)
    PROVE  /\ Replayed(x, e) \in State(n)
           /\ Replayed(x, e) = IF e.type = "checkpoint"
                               THEN [context |-> e.state.context, talk |-> e.state.talk]
                               ELSE [context |-> Updated(x.context, e), talk |-> x.talk]
<1>1. CASE e.type = "checkpoint"
  <2>1. e.state \in Saved(n)
    BY <1>1, EntryIs DEF Notes
  <2> QED BY <1>1, <2>1 DEF Replayed, Saved, State
<1>2. CASE e.type # "checkpoint"
  <2>1. Updated(x.context, e) \in [Keys -> 0 .. n]
    BY UpdatedIs DEF State
  <2>2. Replayed(x, e) = [x EXCEPT !.context = Updated(@, e)]
    BY <1>2 DEF Replayed
  <2> HIDE DEF Updated
  <2>3. Replayed(x, e) = [context |-> Updated(x.context, e), talk |-> x.talk]
    BY <2>2 DEF State
  <2> QED BY <1>2, <2>1, <2>3 DEF State
<1> QED BY <1>1, <1>2

LEMMA ReadersTyped ==
    ASSUME NEW n \in Nat
    PROVE  /\ \A s \in Seq(Entries(n)) : Reconstruct(s) \in State(n)
           /\ \A base \in [Keys -> 0 .. n] :
                 \A s \in Seq(Entries(n)) : Replay(base, s) \in [Keys -> 0 .. n]
<1>1. Empty \in State(n)
  BY DEF Empty, Blank, State, Talks
<1>2. \A x \in State(n), e \in Entries(n) : Replayed(x, e) \in State(n)
  BY ReplayedIs
<1>3. \A s \in Seq(Entries(n)) : Rebuilding!Fold(Empty, s) \in State(n)
  BY <1>1, <1>2, Rebuilding!FoldIn
<1>4. \A x \in [Keys -> 0 .. n], e \in Entries(n) : Updated(x, e) \in [Keys -> 0 .. n]
  BY UpdatedIs
<1>5. ASSUME NEW base \in [Keys -> 0 .. n]
      PROVE  \A s \in Seq(Entries(n)) : Updating!Fold(base, s) \in [Keys -> 0 .. n]
  BY <1>4, Updating!FoldIn
<1> QED BY <1>3, <1>5, ReconstructIs, ReplayIs

\* A key that some entry updates has the value of the last one; another
\* keeps the value it had.
LEMMA ReplayBase ==
    ASSUME NEW n \in Nat, NEW k \in Keys
    PROVE  \A s \in Seq(Entries(n)) :
              \/ \A b \in [Keys -> 0 .. n] : Replay(b, s)[k] = b[k]
              \/ \E v : \A b \in [Keys -> 0 .. n] : Replay(b, s)[k] = v
<1> DEFINE Kept(s) == \A b \in [Keys -> 0 .. n] : Replay(b, s)[k] = b[k]
           Fixed(s) == \E v : \A b \in [Keys -> 0 .. n] : Replay(b, s)[k] = v
           T == {s \in Seq(Entries(n)) : Kept(s) \/ Fixed(s)}
<1>1. <<>> \in T
  BY ReadersEmpty, EmptySeq
<1>2. ASSUME NEW s \in Seq(Entries(n)), NEW e \in Entries(n), s \in T PROVE Append(s, e) \in T
  <2>1. Append(s, e) \in Seq(Entries(n))
    BY AppendProperties
  <2>2. ASSUME NEW b \in [Keys -> 0 .. n]
        PROVE  Replay(b, Append(s, e))[k] =
                 IF e.type = "context_update" /\ e.key = k THEN e.value ELSE Replay(b, s)[k]
    <3>1. Replay(b, Append(s, e)) = Updated(Replay(b, s), e)
      BY ReplayAppend
    <3>2. Replay(b, s) \in [Keys -> 0 .. n]
      BY ReadersTyped
    <3> QED BY <3>1, <3>2, UpdatedIs
  <2>3. CASE e.type = "context_update" /\ e.key = k
    <3>1. \A b \in [Keys -> 0 .. n] : Replay(b, Append(s, e))[k] = e.value
      BY <2>2, <2>3
    <3> QED BY <2>1, <3>1
  <2>4. CASE ~(e.type = "context_update" /\ e.key = k)
    <3>1. \A b \in [Keys -> 0 .. n] : Replay(b, Append(s, e))[k] = Replay(b, s)[k]
      BY <2>2, <2>4
    <3>2. CASE Kept(s)
      <4>1. Kept(Append(s, e))
        BY <3>1, <3>2
      <4> QED BY <2>1, <4>1
    <3>3. CASE Fixed(s)
      <4>1. Fixed(Append(s, e))
        BY <3>1, <3>3
      <4> QED BY <2>1, <4>1
    <3> QED BY <1>2, <3>2, <3>3
  <2> QED BY <2>3, <2>4
<1>3. \A s \in Seq(Entries(n)), e \in Entries(n) : s \in T => Append(s, e) \in T
  BY <1>2
<1> HIDE DEF T
<1>4. \A s \in Seq(Entries(n)) : s \in T
  BY <1>1, <1>3, Updating!SequenceInduction
<1> QED BY <1>4 DEF T

LEMMA LatestIs ==
    ASSUME NEW E, NEW j \in Seq(E), CheckpointsOf(j) # {}
    PROVE  /\ Latest(j) \in 1 .. Len(j) /\ j[Latest(j)].type = "checkpoint"
           /\ \A i \in CheckpointsOf(j) : i <= Latest(j)
           /\ After(j) \in Seq(E)
<1>1. Len(j) \in Nat /\ DOMAIN j = 1 .. Len(j)
  BY LenProperties
<1>2. CheckpointsOf(j) \subseteq 0 .. Len(j)
  BY <1>1 DEF CheckpointsOf
<1>3. Updating!Max(CheckpointsOf(j)) = Latest(j)
  BY DEF Latest, Max, Updating!Max
<1>4. Latest(j) \in CheckpointsOf(j) /\ \A i \in CheckpointsOf(j) : i <= Latest(j)
  BY <1>1, <1>2, <1>3, Updating!MaxIs
<1>5. Latest(j) \in 1 .. Len(j) /\ j[Latest(j)].type = "checkpoint"
  BY <1>1, <1>4 DEF CheckpointsOf
<1>6. \A i \in Latest(j) + 1 .. Len(j) : j[i] \in E
  BY <1>1, <1>5, ElementOfSeq
<1>7. After(j) \in Seq(E)
  BY <1>1, <1>5, <1>6, SubSeqProperties DEF After
<1> QED BY <1>4, <1>5, <1>7

\* One more entry: a checkpoint is the latest one, another comes after it.
LEMMA OneMore ==
    ASSUME NEW E, NEW j \in Seq(E), NEW e \in E
    PROVE  /\ e.type = "checkpoint" =>
                /\ CheckpointsOf(Append(j, e)) # {}
                /\ Base(Append(j, e)) = e /\ After(Append(j, e)) = <<>>
           /\ e.type # "checkpoint" =>
                /\ CheckpointsOf(Append(j, e)) = CheckpointsOf(j)
                /\ CheckpointsOf(j) # {} =>
                     Base(Append(j, e)) = Base(j) /\ After(Append(j, e)) = Append(After(j), e)
<1> DEFINE a == Append(j, e)
           n == Len(j)
<1>1. n \in Nat /\ DOMAIN j = 1 .. n
  BY LenProperties
<1>2. /\ a \in Seq(E) /\ Len(a) = n + 1 /\ DOMAIN a = 1 .. n + 1
      /\ (\A i \in 1 .. n : a[i] = j[i]) /\ a[n + 1] = e
  BY AppendProperties, LenProperties
<1> HIDE DEF a, n
<1>3. ASSUME e.type = "checkpoint"
      PROVE  CheckpointsOf(a) # {} /\ a[Latest(a)] = e /\ After(a) = <<>>
  <2>1. n + 1 \in CheckpointsOf(a)
    BY <1>1, <1>2, <1>3 DEF CheckpointsOf
  <2>2. Latest(a) \in 1 .. n + 1 /\ n + 1 <= Latest(a)
    BY <1>2, <2>1, LatestIs
  <2>3. Latest(a) = n + 1
    BY <1>1, <2>2
  <2>4. After(a) = <<>>
    BY <1>1, <1>2, <2>3, SubSeqEmpty DEF After
  <2> QED BY <1>2, <2>1, <2>3, <2>4
<1>4. ASSUME e.type # "checkpoint"
      PROVE  CheckpointsOf(a) = CheckpointsOf(j)
  BY <1>1, <1>2, <1>4 DEF CheckpointsOf
<1>5. ASSUME e.type # "checkpoint", CheckpointsOf(j) # {}
      PROVE  a[Latest(a)] = j[Latest(j)] /\ After(a) = Append(After(j), e)
  <2>1. Latest(a) = Latest(j) /\ Latest(j) \in 1 .. n /\ After(j) \in Seq(E)
    BY <1>4, <1>5, LatestIs DEF Latest, n
  <2> DEFINE l == Latest(j)
             p == After(j)
  <2>2. l \in Nat /\ l <= n
    BY <1>1, <2>1
  <2>3. \A i \in l + 1 .. n + 1 : a[i] \in E
    BY <1>2, <2>2, ElementOfSeq
  <2>4. \A i \in l + 1 .. n : j[i] \in E
    BY <1>1, <2>2, ElementOfSeq DEF n
  <2> HIDE DEF l
  <2>5. /\ p = SubSeq(j, l + 1, n) /\ p \in Seq(E) /\ Len(p) = n - l
        /\ \A i \in 1 .. n - l : p[i] = j[l + i]
    <3>1. p = SubSeq(j, l + 1, n)
      BY DEF After, l, n
    <3>2. /\ SubSeq(j, l + 1, n) \in Seq(E)
          /\ Len(SubSeq(j, l + 1, n)) = IF l + 1 <= n THEN n - (l + 1) + 1 ELSE 0
          /\ \A i \in 1 .. n - (l + 1) + 1 : SubSeq(j, l + 1, n)[i] = j[l + 1 + i - 1]
      BY <1>1, <2>2, <2>4, SubSeqProperties
    <3> HIDE DEF p
    <3> QED BY <1>1, <2>2, <3>1, <3>2
  <2>6. /\ After(a) = SubSeq(a, l + 1, n + 1) /\ After(a) \in Seq(E) /\ Len(After(a)) = n + 1 - l
        /\ \A i \in 1 .. n + 1 - l : After(a)[i] = a[l + i]
    <3>1. After(a) = SubSeq(a, l + 1, n + 1)
      BY <1>2, <2>1 DEF After, l
    <3>2. /\ SubSeq(a, l + 1, n + 1) \in Seq(E)
          /\ Len(SubSeq(a, l + 1, n + 1)) = IF l + 1 <= n + 1 THEN n + 1 - (l + 1) + 1 ELSE 0
          /\ \A i \in 1 .. n + 1 - (l + 1) + 1 : SubSeq(a, l + 1, n + 1)[i] = a[l + 1 + i - 1]
      BY <1>1, <1>2, <2>2, <2>3, SubSeqProperties
    <3> QED BY <1>1, <2>2, <3>1, <3>2
  <2> HIDE DEF p
  <2>7. /\ Append(p, e) \in Seq(E) /\ Len(Append(p, e)) = n - l + 1
        /\ (\A i \in 1 .. n - l : Append(p, e)[i] = p[i]) /\ Append(p, e)[n - l + 1] = e
    BY <2>5, AppendProperties
  <2>8. \A i \in 1 .. n + 1 - l : After(a)[i] = Append(p, e)[i]
    <3> TAKE i \in 1 .. n + 1 - l
    <3>1. CASE i \in 1 .. n - l
      <4>1. l + i \in 1 .. n
        BY <1>1, <2>2, <3>1
      <4> QED BY <1>2, <2>5, <2>6, <2>7, <3>1, <4>1
    <3>2. CASE i = n - l + 1
      <4>1. l + i = n + 1
        BY <1>1, <2>2, <3>2
      <4> QED BY <1>2, <2>6, <2>7, <3>2, <4>1
    <3>3. i \in 1 .. n - l \/ i = n - l + 1
      BY <1>1, <2>2
    <3> QED BY <3>1, <3>2, <3>3
  <2>9. After(a) = Append(p, e)
    <3>1. Len(After(a)) = Len(Append(p, e)) /\ Len(After(a)) = n + 1 - l
      BY <1>1, <2>2, <2>6, <2>7
    <3> QED BY <2>6, <2>7, <2>8, <3>1, SeqEqual
  <2> QED BY <1>2, <2>1, <2>9 DEF p
<1>6. /\ e.type = "checkpoint" => CheckpointsOf(a) # {} /\ Base(a) = e /\ After(a) = <<>>
      /\ e.type # "checkpoint" =>
           /\ CheckpointsOf(a) = CheckpointsOf(j)
           /\ CheckpointsOf(j) # {} => Base(a) = Base(j) /\ After(a) = Append(After(j), e)
  BY <1>3, <1>4, <1>5 DEF Base
<1> QED BY <1>6 DEF a

\* What a rewind to the end rebuilds: the last checkpoint and the updates
\* after it.
LEMMA CheckpointSplit ==
    ASSUME NEW n \in Nat
    PROVE  \A j \in Seq(Entries(n)) : Reconstruct(j) =
              IF CheckpointsOf(j) = {} THEN [context |-> Replay(Blank, j), talk |-> {}]
              ELSE [context |-> Replay(Base(j).state.context, After(j)),
                    talk |-> Base(j).state.talk]
<1> DEFINE Start(j) == IF CheckpointsOf(j) = {} THEN Empty
                       ELSE [context |-> Base(j).state.context, talk |-> Base(j).state.talk]
           Rest(j) == IF CheckpointsOf(j) = {} THEN j ELSE After(j)
           Split(j) == Reconstruct(j) = [context |-> Replay(Start(j).context, Rest(j)), talk |-> Start(j).talk]
           T == {j \in Seq(Entries(n)) : Split(j)}
<1>1. ASSUME NEW j \in Seq(Entries(n))
      PROVE  Start(j) \in State(n) /\ Rest(j) \in Seq(Entries(n))
  <2>1. CASE CheckpointsOf(j) = {}
    BY <2>1 DEF State, Empty, Blank, Talks
  <2>2. CASE CheckpointsOf(j) # {}
    <3>1. Latest(j) \in 1 .. Len(j) /\ Base(j).type = "checkpoint" /\ After(j) \in Seq(Entries(n))
      BY <2>2, LatestIs DEF Base
    <3>2. Base(j) \in Entries(n)
      BY <3>1, ElementOfSeq DEF Base
    <3>3. Base(j).state \in Saved(n)
      BY <3>1, <3>2, EntryIs DEF Notes
    <3> QED BY <2>2, <3>1, <3>3 DEF State, Saved
  <2> QED BY <2>1, <2>2
<1>2. <<>> \in T
  <2>1. CheckpointsOf(<<>>) = {}
    BY DEF CheckpointsOf
  <2>2. Reconstruct(<<>>) = Empty /\ Replay(Blank, <<>>) = Blank
    BY ReadersEmpty
  <2> QED BY <2>1, <2>2, EmptySeq DEF Empty
<1>3. ASSUME NEW j \in Seq(Entries(n)), NEW e \in Entries(n), Split(j) PROVE Split(Append(j, e))
  <2> DEFINE a == Append(j, e)
  <2>1. Reconstruct(a) = Replayed(Reconstruct(j), e)
    BY ReconstructAppend
  <2>2. Reconstruct(j) \in State(n)
    BY ReadersTyped
  <2>3. CASE e.type = "checkpoint"
    <3>1. CheckpointsOf(a) # {} /\ Base(a) = e /\ After(a) = <<>>
      <4> HIDE DEF Start, Rest, Split, T
      <4> QED BY <2>3, OneMore
    <3>2. Reconstruct(a) = [context |-> e.state.context, talk |-> e.state.talk]
      BY <2>1, <2>2, <2>3, ReplayedIs
    <3>3. Start(a) = [context |-> e.state.context, talk |-> e.state.talk] /\ Rest(a) = <<>>
      BY <3>1
    <3> HIDE DEF Start, Rest
    <3>4. Replay(Start(a).context, Rest(a)) = Start(a).context
      BY <3>3, ReadersEmpty
    <3>5. Start(a).context = e.state.context /\ Start(a).talk = e.state.talk
      BY <3>3
    <3> QED BY <3>2, <3>4, <3>5
  <2>4. CASE e.type # "checkpoint"
    <3>1. /\ CheckpointsOf(a) = CheckpointsOf(j)
          /\ CheckpointsOf(j) # {} => Base(a) = Base(j) /\ After(a) = Append(After(j), e)
      <4> HIDE DEF Start, Rest, Split, T
      <4> QED BY <2>4, OneMore
    <3>2. Start(a) = Start(j) /\ Rest(a) = Append(Rest(j), e)
      BY <3>1
    <3>3. Reconstruct(a) = [context |-> Updated(Reconstruct(j).context, e), talk |-> Reconstruct(j).talk]
      BY <2>1, <2>2, <2>4, ReplayedIs
    <3>4. Replay(Start(j).context, Append(Rest(j), e)) = Updated(Replay(Start(j).context, Rest(j)), e)
      <4>1. Rest(j) \in Seq(Entries(n))
        BY <1>1
      <4> HIDE DEF Start, Rest, Split, T
      <4> QED BY <4>1, ReplayAppend
    <3> HIDE DEF Start, Rest
    <3>5. /\ Reconstruct(j).context = Replay(Start(j).context, Rest(j))
          /\ Reconstruct(j).talk = Start(j).talk
      BY <1>3
    <3> QED BY <3>2, <3>3, <3>4, <3>5
  <2> QED BY <2>3, <2>4
<1>4. \A j \in Seq(Entries(n)), e \in Entries(n) : j \in T => Append(j, e) \in T
  <2> SUFFICES ASSUME NEW j \in Seq(Entries(n)), NEW e \in Entries(n), Split(j)
               PROVE  Append(j, e) \in T
    OBVIOUS
  <2>1. Append(j, e) \in Seq(Entries(n))
    BY AppendProperties
  <2> HIDE DEF Split
  <2> QED BY <1>3, <2>1
<1> HIDE DEF T
<1>5. \A j \in Seq(Entries(n)) : j \in T
  BY <1>2, <1>4, Updating!SequenceInduction
<1> QED BY <1>5 DEF T, Empty

-----------------------------------------------------------------------------
(* What recovery finds in a file and a journal *)

Base0(f) == IF f = <<>> THEN Blank ELSE f[1].context
Found(f, j) ==
    Replay(Base0(f), IF f = <<>> THEN j ELSE IF CheckpointsOf(j) = {} THEN <<>> ELSE After(j))
Files(n) == {<<>>} \union {<<s>> : s \in Saved(n)}

\* Replay knows where to start.
Good(f, j) == f = <<>> \/ CheckpointsOf(j) # {}

LEMMA RecoveredIs == Recovered = Found(file, journal)
BY DEF Recovered, Found, Replay, Base0, ToReplay, HasFile, Snapshot, After, Latest, LastCheckpoint

LEMMA FoundTyped ==
    ASSUME NEW n \in Nat, NEW f \in Files(n), NEW j \in Seq(Entries(n))
    PROVE  Found(f, j) \in [Keys -> 0 .. n] /\ Reconstruct(j) \in State(n)
<1>1. Base0(f) \in [Keys -> 0 .. n]
  BY DEF Base0, Files, Saved, Blank
<1>2. CheckpointsOf(j) # {} => After(j) \in Seq(Entries(n))
  BY LatestIs
<1> QED BY <1>1, <1>2, ReadersTyped, EmptySeq DEF Found

\* An entry that is no checkpoint adds its update to what both readers find.
LEMMA FoundAppend ==
    ASSUME NEW n \in Nat, NEW f \in Files(n), NEW j \in Seq(Entries(n)),
           NEW e \in Entries(n), e.type # "checkpoint"
    PROVE  /\ CheckpointsOf(Append(j, e)) = CheckpointsOf(j)
           /\ Good(f, j) => Found(f, Append(j, e)) = Updated(Found(f, j), e)
           /\ Reconstruct(Append(j, e)).context = Updated(Reconstruct(j).context, e)
<1>1. CheckpointsOf(Append(j, e)) = CheckpointsOf(j)
  BY OneMore
<1>2. CheckpointsOf(j) # {} =>
        After(j) \in Seq(Entries(n)) /\ After(Append(j, e)) = Append(After(j), e)
  BY OneMore, LatestIs
<1>3. ASSUME Good(f, j) PROVE Found(f, Append(j, e)) = Updated(Found(f, j), e)
  <2> DEFINE p == IF f = <<>> THEN j ELSE After(j)
  <2>1. p \in Seq(Entries(n)) /\ Found(f, j) = Replay(Base0(f), p)
    BY <1>2, <1>3 DEF Found, Good
  <2>2. Found(f, Append(j, e)) = Replay(Base0(f), Append(p, e))
    BY <1>1, <1>2, <1>3 DEF Found, Good
  <2> HIDE DEF p
  <2> QED BY <2>1, <2>2, ReplayAppend
<1>4. Reconstruct(Append(j, e)) = Replayed(Reconstruct(j), e)
  BY ReconstructAppend
<1>5. Reconstruct(j) \in State(n)
  BY ReadersTyped
<1>6. Reconstruct(Append(j, e)) = [context |-> Updated(Reconstruct(j).context, e), talk |-> Reconstruct(j).talk]
  BY <1>4, <1>5, ReplayedIs
<1> QED BY <1>1, <1>3, <1>6

\* A checkpoint in the file and the journal is what both readers find.
LEMMA FoundCheckpoint ==
    ASSUME NEW n \in Nat, NEW j \in Seq(Entries(n)), NEW s \in Saved(n)
    PROVE  /\ CheckpointsOf(Append(j, Checkpoint(s))) # {}
           /\ Found(<<s>>, Append(j, Checkpoint(s))) = s.context
           /\ Reconstruct(Append(j, Checkpoint(s))).context = s.context
<1> DEFINE e == Checkpoint(s)
<1>1. e \in Entries(n) /\ e.type = "checkpoint" /\ e.state = s
  BY DEF Entries, Checkpoint
<1> HIDE DEF e
<1>2. CheckpointsOf(Append(j, e)) # {} /\ After(Append(j, e)) = <<>>
  BY <1>1, OneMore
<1>3. Found(<<s>>, Append(j, e)) = s.context
  BY <1>2, ReadersEmpty DEF Found, Base0
<1>4. Reconstruct(Append(j, e)) = Replayed(Reconstruct(j), e) /\ Reconstruct(j) \in State(n)
  BY <1>1, ReconstructAppend, ReadersTyped
<1>5. Reconstruct(Append(j, e)) = [context |-> s.context, talk |-> s.talk]
  BY <1>1, <1>4, ReplayedIs
<1> QED BY <1>2, <1>3, <1>5 DEF e

\* A checkpoint whose entry is missing: a key with an update after the last
\* checkpoint entry keeps what it had, another one is as in the file.
LEMMA FoundFile ==
    ASSUME NEW n \in Nat, NEW f \in Files(n), f # <<>>, NEW j \in Seq(Entries(n)),
           CheckpointsOf(j) # {}, NEW s \in Saved(n), NEW k \in Keys
    PROVE  \/ Found(<<s>>, j)[k] = s.context[k]
           \/ /\ Found(<<s>>, j)[k] = Found(f, j)[k]
              /\ Found(<<s>>, j)[k] = Reconstruct(j).context[k]
<1>1. After(j) \in Seq(Entries(n)) /\ Base(j) \in Entries(n) /\ Base(j).type = "checkpoint"
  BY LatestIs, ElementOfSeq DEF Base
<1>2. Base(j).state \in Saved(n)
  BY <1>1, EntryIs DEF Notes
<1>3. /\ Base0(f) \in [Keys -> 0 .. n] /\ s.context \in [Keys -> 0 .. n]
      /\ Base(j).state.context \in [Keys -> 0 .. n]
  BY <1>2 DEF Base0, Files, Saved
<1>4. /\ Found(<<s>>, j) = Replay(s.context, After(j))
      /\ Found(f, j) = Replay(Base0(f), After(j))
  BY DEF Found, Base0
<1>5. Reconstruct(j) = [context |-> Replay(Base(j).state.context, After(j)), talk |-> Base(j).state.talk]
  BY CheckpointSplit
<1>6. Reconstruct(j).context = Replay(Base(j).state.context, After(j))
  BY <1>5
<1>7. \/ \A b \in [Keys -> 0 .. n] : Replay(b, After(j))[k] = b[k]
      \/ \E v : \A b \in [Keys -> 0 .. n] : Replay(b, After(j))[k] = v
  BY <1>1, ReplayBase
<1> QED BY <1>3, <1>4, <1>6, <1>7

-----------------------------------------------------------------------------
(* The inductive invariant *)

Write(n) == [key : Keys, value : 1 .. n]

\* The values are numbers of writes made so far.
Typed ==
    /\ proc \in Procs
    /\ writes \in Nat /\ writes <= MaxWrites
    /\ context \in [Keys -> 0 .. writes] /\ talk \in Talks
    /\ pending \in Seq(Write(writes))
    /\ lost \subseteq Keys
    /\ journal \in Seq(Entries(writes))
    /\ file \in Files(writes)
    /\ since \in [Keys -> Seq(0 .. writes)]

\* Without an object nothing is live, and nothing waits for its entry.
GoneBlank == proc = "gone" => context = Blank /\ pending = <<>>

\* Without a file there is no checkpoint entry.
FileFirst == file = <<>> => CheckpointsOf(journal) = {}

\* The writes without an entry are in order, and the last one of a key is its
\* value.
PendingOrder == \A i, j \in DOMAIN pending : i < j => pending[i].value < pending[j].value

LastOf(k, i) ==
    /\ i \in DOMAIN pending /\ pending[i].key = k
    /\ \A j \in DOMAIN pending : i < j => pending[j].key # k

PendingLast ==
    ~rewinding => \A k \in Keys \ lost, i \in DOMAIN pending :
                      LastOf(k, i) => pending[i].value = context[k]

\* A value is first at a position of the history of its key.
FirstOf(s, v, q) == q \in DOMAIN s /\ s[q] = v /\ \A p \in DOMAIN s : p < q => s[p] < v

PendingSince ==
    \A i \in DOMAIN pending : \E q \in Nat : FirstOf(since[pending[i].key], pending[i].value, q)

\* The live value of a key is in its history, not before a write that has no
\* entry yet.
Stands(k) ==
    \E c \in DOMAIN since[k] :
        /\ since[k][c] = context[k]
        /\ \A i \in DOMAIN pending : pending[i].key = k =>
              \E q \in Nat : q <= c /\ FirstOf(since[k], pending[i].value, q)
Untouched(k) == proc = "fresh" /\ context[k] = 0 /\ ~Pending(k)
LiveSince ==
    file # <<>> /\ CheckpointsOf(journal) # {} /\ proc # "gone"
        => \A k \in Keys : Stands(k) \/ Untouched(k)

\* Recovery finds a value of the history (Recoverable).
FoundSince == Good(file, journal) => \A k \in Keys : Found(file, journal)[k] \in Range(since[k])

\* The two readers agree on every key whose writes have all been journaled,
\* and so does an object that has not recovered, if it wrote the key.
ReadersAgree ==
    Good(file, journal) => \A k \in Keys \ lost :
        Found(file, journal)[k] = Reconstruct(journal).context[k]
FreshExact ==
    proc = "fresh" => \A k \in Keys \ Lagging :
        context[k] = 0 \/ Reconstruct(journal).context[k] = context[k]

VInv ==
    /\ Typed /\ GoneBlank /\ FileFirst /\ PendingOrder /\ PendingLast /\ PendingSince
    /\ LiveSince /\ FoundSince /\ ReadersAgree /\ FreshExact /\ RewindExact

LEMMA RangeIs == \A s, v : v \in Range(s) <=> \E i \in DOMAIN s : s[i] = v
BY DEF Range

LEMMA SinceIs == FoundSince <=> Recoverable
BY RecoveredIs DEF FoundSince, Recoverable, Good, HasFile

\* A note leaves what both readers find.
LEMMA Noted ==
    ASSUME Typed, file' = file,
           journal' = journal \/ \E t \in Notes : journal' = Append(journal, Note(t))
    PROVE  /\ journal' \in Seq(Entries(writes))
           /\ CheckpointsOf(journal') = CheckpointsOf(journal)
           /\ Good(file', journal') <=> Good(file, journal)
           /\ Good(file, journal) => Found(file', journal') = Found(file, journal)
           /\ Reconstruct(journal').context = Reconstruct(journal).context
<1>0. writes \in Nat /\ journal \in Seq(Entries(writes)) /\ file \in Files(writes)
  BY DEF Typed
<1>1. CASE journal' = journal
  BY <1>0, <1>1
<1>2. ASSUME NEW t \in Notes, journal' = Append(journal, Note(t))
      PROVE  /\ journal' \in Seq(Entries(writes))
             /\ CheckpointsOf(journal') = CheckpointsOf(journal)
             /\ Good(file, journal) => Found(file', journal') = Found(file, journal)
             /\ Reconstruct(journal').context = Reconstruct(journal).context
  <2> DEFINE e == Note(t)
  <2>1. e \in Entries(writes) /\ e.type # "checkpoint" /\ \A c : Updated(c, e) = c
    BY DEF Entries, Note, Notes, Updated
  <2>2. journal' = Append(journal, e)
    BY <1>2
  <2> HIDE DEF e
  <2>3. Append(journal, e) \in Seq(Entries(writes))
    BY <1>0, <2>1, AppendProperties
  <2>4. /\ CheckpointsOf(Append(journal, e)) = CheckpointsOf(journal)
        /\ Good(file, journal) => Found(file, Append(journal, e)) = Updated(Found(file, journal), e)
        /\ Reconstruct(Append(journal, e)).context = Updated(Reconstruct(journal).context, e)
    BY <1>0, <2>1, FoundAppend
  <2> QED BY <2>1, <2>2, <2>3, <2>4
<1> QED BY <1>1, <1>2 DEF Good

\* A step of the object that leaves the values and their writes alone.
LEMMA ValuesKept ==
    ASSUME VInv, context' = context, pending' = pending, rewinding' = rewinding, file' = file,
           since' = since, lost' = lost, writes' = writes, talk' \in Talks,
           journal' = journal \/ \E t \in Notes : journal' = Append(journal, Note(t)),
           proc' = proc \/ (proc \notin Down /\ proc' \in Procs \ Down)
    PROVE  VInv'
<1>1. /\ Typed /\ GoneBlank /\ FileFirst /\ PendingOrder /\ PendingLast /\ PendingSince
      /\ LiveSince /\ FoundSince /\ ReadersAgree /\ FreshExact /\ RewindExact
  BY DEF VInv
<1>2. /\ journal' \in Seq(Entries(writes))
      /\ CheckpointsOf(journal') = CheckpointsOf(journal)
      /\ Good(file', journal') <=> Good(file, journal)
      /\ Good(file, journal) => Found(file', journal') = Found(file, journal)
      /\ Reconstruct(journal').context = Reconstruct(journal).context
  BY <1>1, Noted
<1>3. Lagging' = Lagging
  BY DEF Lagging, Pending
<1>4. Typed' /\ GoneBlank' /\ FileFirst'
  BY <1>1, <1>2 DEF Typed, GoneBlank, FileFirst, Down
<1>5. PendingOrder' /\ PendingLast' /\ PendingSince'
  BY <1>1 DEF PendingOrder, PendingLast, PendingSince, LastOf
<1>6. LiveSince'
  BY <1>1, <1>2 DEF LiveSince, Stands, Untouched, Pending, Down
<1>7. FoundSince' /\ ReadersAgree'
  BY <1>1, <1>2 DEF FoundSince, ReadersAgree
<1>8. FreshExact' /\ RewindExact'
  BY <1>1, <1>2, <1>3 DEF FreshExact, RewindExact, Down
<1> QED BY <1>4, <1>5, <1>6, <1>7, <1>8 DEF VInv

\* The parts of the invariant, to be cited at once.
LEMMA Parts == VInv =>
    /\ Typed /\ GoneBlank /\ FileFirst /\ PendingOrder /\ PendingLast /\ PendingSince
    /\ LiveSince /\ FoundSince /\ ReadersAgree /\ FreshExact /\ RewindExact
BY DEF VInv

LEMMA CreateKeepsValues ==
    ASSUME VInv, IInv, Create
    PROVE  VInv'
<1>1. /\ proc = "gone" /\ proc' = "fresh" /\ context' = context /\ talk' = talk
      /\ pending' = pending /\ rewinding' = rewinding /\ journal' = journal /\ file' = file
      /\ since' = since /\ lost' = lost /\ writes' = writes
  BY DEF Create, diskVars, bounds
<1>2. Lagging' = Lagging
  BY <1>1 DEF Lagging, Pending
<1>3. context = Blank /\ pending = <<>>
  BY <1>1, Parts DEF GoneBlank
<1>4. Typed' /\ GoneBlank' /\ FileFirst'
  BY <1>1, Parts DEF Typed, GoneBlank, FileFirst, Procs
<1>5. PendingOrder' /\ PendingLast' /\ PendingSince'
  BY <1>1, <1>3 DEF PendingOrder, PendingLast, PendingSince
<1>6. LiveSince'
  BY <1>1, <1>3 DEF LiveSince, Untouched, Pending, Blank
<1>7. FoundSince' /\ ReadersAgree'
  BY <1>1, Parts DEF FoundSince, ReadersAgree
<1>8. FreshExact'
  BY <1>1, <1>3 DEF FreshExact, Blank, Lagging
<1>9. RewindExact'
  BY <1>1 DEF RewindExact
<1> QED BY <1>4, <1>5, <1>6, <1>7, <1>8, <1>9 DEF VInv

\* A crash: the disk stays.
LEMMA CrashKeepsValues ==
    ASSUME VInv, Crash
    PROVE  VInv'
<1>1. /\ proc' = "gone" /\ context' = Blank /\ talk' = {} /\ pending' = <<>>
      /\ rewinding' = FALSE /\ journal' = journal /\ file' = file
      /\ since' = since /\ lost' = lost /\ writes' = writes
  BY DEF Crash, Trouble
<1>2. Blank \in [Keys -> 0 .. writes]
  BY Parts DEF Blank, Typed
<1>3. Typed' /\ GoneBlank' /\ FileFirst'
  <2>1. <<>> \in Seq(Write(writes))
    BY EmptySeq
  <2> QED BY <1>1, <1>2, <2>1, Parts DEF Typed, GoneBlank, FileFirst, Procs, Talks
<1>4. PendingOrder' /\ PendingLast' /\ PendingSince'
  BY <1>1 DEF PendingOrder, PendingLast, PendingSince
<1>5. LiveSince'
  BY <1>1 DEF LiveSince
<1>6. FoundSince' /\ ReadersAgree'
  BY <1>1, Parts DEF FoundSince, ReadersAgree
<1>7. FreshExact' /\ RewindExact'
  BY <1>1 DEF FreshExact, RewindExact
<1> QED BY <1>3, <1>4, <1>5, <1>6, <1>7 DEF VInv

\* A stop or a restart: the writes a worker takes along are lost.
LEMMA CutsOffKeepsValues ==
    ASSUME VInv, CutsOff, proc = "running", proc' \in Procs \ Down, writes' = writes
    PROVE  VInv'
<1>1. /\ context' = context /\ talk' = talk /\ rewinding' = rewinding /\ file' = file
      /\ since' = since
      /\ journal' = journal \/ \E t \in Notes : journal' = Append(journal, Note(t))
  BY DEF CutsOff, Writes, Notes
<1>2. CASE pending' = pending /\ lost' = lost
  <2>1. talk' \in Talks /\ proc \notin Down
    BY <1>1, Parts DEF Typed, Down
  <2> QED BY <1>1, <1>2, <2>1, ValuesKept
<1>3. CASE pending' = <<>> /\ lost' = Lagging
  <2>1. /\ journal' \in Seq(Entries(writes))
        /\ CheckpointsOf(journal') = CheckpointsOf(journal)
        /\ Good(file', journal') <=> Good(file, journal)
        /\ Good(file, journal) => Found(file', journal') = Found(file, journal)
        /\ Reconstruct(journal').context = Reconstruct(journal).context
    BY <1>1, Parts, Noted
  <2>2. Lagging' = Lagging /\ lost \subseteq lost' /\ lost' \subseteq Keys
    BY <1>3, Parts DEF Lagging, Pending, Typed
  <2>3. proc' \notin Down /\ proc \notin Down
    BY DEF Down
  <2>4. Typed' /\ GoneBlank' /\ FileFirst'
    <3>1. <<>> \in Seq(Write(writes))
      BY EmptySeq
    <3> QED BY <1>1, <1>3, <2>1, <2>2, <2>3, <3>1, Parts DEF Typed, GoneBlank, FileFirst, Down
  <2>5. PendingOrder' /\ PendingLast' /\ PendingSince'
    BY <1>3 DEF PendingOrder, PendingLast, PendingSince
  <2>6. LiveSince'
    BY <1>1, <1>3, <2>1, <2>3, Parts DEF LiveSince, Stands, Untouched, Down
  <2>7. FoundSince' /\ ReadersAgree'
    BY <1>1, <2>1, <2>2, Parts DEF FoundSince, ReadersAgree
  <2>8. FreshExact' /\ RewindExact'
    BY <1>1, <2>1, <2>2, <2>3, Parts DEF FreshExact, RewindExact, Down
  <2> QED BY <2>4, <2>5, <2>6, <2>7, <2>8 DEF VInv
<1> QED BY <1>2, <1>3 DEF CutsOff

-----------------------------------------------------------------------------
(* The hooks of the writes *)

\* The oldest write leaves the queue, to its entry or for nothing.
LEMMA PendingTail ==
    ASSUME Typed, pending # <<>>, pending' = Tail(pending)
    PROVE  /\ pending[1] \in Write(writes) /\ Head(pending) = pending[1]
           /\ pending' \in Seq(Write(writes))
           /\ DOMAIN pending \subseteq Nat /\ 1 \in DOMAIN pending
           /\ \A i \in DOMAIN pending : i >= 1
           /\ \A i \in DOMAIN pending' : i \in Nat /\ i + 1 \in DOMAIN pending /\ pending'[i] = pending[i + 1]
           /\ \A i \in DOMAIN pending : i > 1 => i - 1 \in DOMAIN pending' /\ pending'[i - 1] = pending[i]
<1> DEFINE n == Len(pending)
<1>1. pending \in Seq(Write(writes)) /\ n \in Nat /\ DOMAIN pending = 1 .. n /\ n # 0
  BY LenProperties, EmptySeq DEF Typed
<1>2. /\ Head(pending) = pending[1]
      /\ Tail(pending) \in Seq(Write(writes)) /\ Len(Tail(pending)) = n - 1
      /\ \A i \in 1 .. n - 1 : Tail(pending)[i] = pending[i + 1]
  BY <1>1, HeadTailProperties
<1>3. pending' \in Seq(Write(writes)) /\ DOMAIN pending' = 1 .. n - 1
  BY <1>1, <1>2, LenProperties
<1>4. pending[1] \in Write(writes)
  BY <1>1, ElementOfSeq
<1> HIDE DEF n
<1>5. \A i \in DOMAIN pending' : i \in Nat /\ i + 1 \in DOMAIN pending /\ pending'[i] = pending[i + 1]
  BY <1>1, <1>2, <1>3
<1>6. \A i \in DOMAIN pending : i > 1 => i - 1 \in DOMAIN pending' /\ pending'[i - 1] = pending[i]
  <2> SUFFICES ASSUME NEW i \in DOMAIN pending, i > 1
               PROVE  i - 1 \in DOMAIN pending' /\ pending'[i - 1] = pending[i]
    OBVIOUS
  <2>1. i - 1 \in 1 .. n - 1 /\ (i - 1) + 1 = i
    BY <1>1
  <2>2. Tail(pending)[i - 1] = pending[(i - 1) + 1]
    BY <1>2, <2>1
  <2> QED BY <1>3, <2>1, <2>2
<1> QED BY <1>1, <1>2, <1>3, <1>4, <1>5, <1>6

LEMMA TailOrder ==
    ASSUME VInv, pending # <<>>, pending' = Tail(pending)
    PROVE  /\ PendingOrder'
           /\ \A i \in DOMAIN pending' : pending[1].value < pending'[i].value
           /\ \A k : Pending(k) <=> (Pending(k))' \/ k = pending[1].key
           /\ \A k, i : (LastOf(k, i))' => LastOf(k, i + 1)
           /\ \A k : k = pending[1].key /\ ~(Pending(k))' => LastOf(k, 1)
<1>1. /\ DOMAIN pending \subseteq Nat /\ 1 \in DOMAIN pending
      /\ \A i \in DOMAIN pending : i >= 1
      /\ \A i \in DOMAIN pending' : i \in Nat /\ i + 1 \in DOMAIN pending /\ pending'[i] = pending[i + 1]
      /\ \A i \in DOMAIN pending : i > 1 => i - 1 \in DOMAIN pending' /\ pending'[i - 1] = pending[i]
  BY Parts, PendingTail
<1>2. \A i, j \in DOMAIN pending : i < j => pending[i].value < pending[j].value
  BY Parts DEF PendingOrder
<1>3. ASSUME NEW i \in DOMAIN pending', NEW j \in DOMAIN pending', i < j
      PROVE  pending'[i].value < pending'[j].value
  <2>1. i + 1 \in DOMAIN pending /\ j + 1 \in DOMAIN pending /\ i + 1 < j + 1
    BY <1>1, <1>3
  <2> QED BY <1>1, <1>2, <2>1
<1>4. ASSUME NEW i \in DOMAIN pending' PROVE pending[1].value < pending'[i].value
  <2>1. i + 1 \in DOMAIN pending /\ i + 1 >= 1 /\ 1 # i + 1 /\ i \in Nat /\ i >= 1
    <3>1. i \in Nat /\ i + 1 \in DOMAIN pending
      BY <1>1
    <3>2. i # 0
      <4>1. pending' \in Seq(Write(writes))
        BY Parts, PendingTail
      <4>2. i \in 1 .. Len(pending')
        BY <4>1, LenProperties
      <4> QED BY <4>1, <4>2, LenProperties
    <3> QED BY <3>1, <3>2
  <2>2. 1 < i + 1
    BY <2>1
  <2>3. pending[1].value < pending[i + 1].value
    BY <1>1, <1>2, <2>1, <2>2
  <2> QED BY <1>1, <2>3
<1>5. ASSUME NEW k PROVE Pending(k) <=> (Pending(k))' \/ k = pending[1].key
  <2>1. ASSUME Pending(k) PROVE (Pending(k))' \/ k = pending[1].key
    <3>1. PICK i \in DOMAIN pending : pending[i].key = k
      BY <2>1 DEF Pending
    <3>2. CASE i = 1
      BY <3>1, <3>2
    <3>3. CASE i # 1
      <4>1. i > 1
        BY <1>1, <3>3
      <4> QED BY <1>1, <3>1, <4>1 DEF Pending
    <3> QED BY <3>2, <3>3
  <2>2. ASSUME (Pending(k))' PROVE Pending(k)
    BY <1>1, <2>2 DEF Pending
  <2> QED BY <1>1, <2>1, <2>2 DEF Pending
<1>6. ASSUME NEW k, NEW i, (LastOf(k, i))' PROVE LastOf(k, i + 1)
  <2>1. i \in DOMAIN pending' /\ pending'[i].key = k /\ \A j \in DOMAIN pending' : i < j => pending'[j].key # k
    BY <1>6 DEF LastOf
  <2>2. i \in Nat /\ i + 1 \in DOMAIN pending /\ pending[i + 1].key = k
    BY <1>1, <2>1
  <2>3. ASSUME NEW j \in DOMAIN pending, i + 1 < j PROVE pending[j].key # k
    <3>1. j > 1 /\ j - 1 > i
      BY <1>1, <2>2, <2>3
    <3> QED BY <1>1, <2>1, <3>1
  <2> QED BY <2>2, <2>3 DEF LastOf
<1>7. ASSUME NEW k, k = pending[1].key, ~(Pending(k))' PROVE LastOf(k, 1)
  BY <1>1, <1>7 DEF LastOf, Pending
<1> QED BY <1>3, <1>4, <1>5, <1>6, <1>7 DEF PendingOrder

LEMMA HookFailsKeepsValues ==
    ASSUME VInv, HookFails
    PROVE  VInv'
<1>1. /\ pending # <<>> /\ pending' = Tail(pending) /\ lost' = lost \union {Head(pending).key}
      /\ proc' = proc /\ context' = context /\ talk' = talk /\ rewinding' = rewinding
      /\ journal' = journal /\ file' = file /\ since' = since /\ writes' = writes
  BY DEF HookFails, Trouble
<1> DEFINE key == pending[1].key
<1>2. /\ pending' \in Seq(Write(writes)) /\ lost' = lost \union {key} /\ key \in Keys
      /\ \A i \in DOMAIN pending' : i \in Nat /\ i + 1 \in DOMAIN pending /\ pending'[i] = pending[i + 1]
  BY <1>1, Parts, PendingTail DEF Write
<1>3. /\ PendingOrder'
      /\ \A k : Pending(k) <=> (Pending(k))' \/ k = key
      /\ \A k, i : (LastOf(k, i))' => LastOf(k, i + 1)
  BY <1>1, TailOrder
<1> HIDE DEF key
<1>4. lost' \subseteq Keys /\ Lagging' = Lagging
  BY <1>2, <1>3, Parts DEF Lagging, Typed
<1>5. Typed' /\ GoneBlank' /\ FileFirst'
  <2>1. proc # "gone"
    BY <1>1, Parts DEF GoneBlank
  <2> QED BY <1>1, <1>2, <1>4, <2>1, Parts DEF Typed, GoneBlank, FileFirst
<1>6. PendingLast'
  BY <1>1, <1>2, <1>3, Parts DEF PendingLast, LastOf
<1>7. PendingSince'
  BY <1>1, <1>2, Parts DEF PendingSince
<1>8. LiveSince'
  <2> SUFFICES ASSUME file # <<>>, CheckpointsOf(journal) # {}, proc # "gone", NEW k \in Keys
               PROVE  (Stands(k))' \/ (Untouched(k))'
    BY <1>1 DEF LiveSince
  <2>1. CASE Untouched(k)
    BY <1>1, <1>3, <2>1 DEF Untouched
  <2>2. CASE Stands(k)
    BY <1>1, <1>2, <2>2 DEF Stands
  <2> QED BY <2>1, <2>2, Parts DEF LiveSince
<1>9. FoundSince' /\ ReadersAgree'
  BY <1>1, <1>2, Parts DEF FoundSince, ReadersAgree
<1>10. FreshExact' /\ RewindExact'
  BY <1>1, <1>4, Parts DEF FreshExact, RewindExact
<1> QED BY <1>3, <1>5, <1>6, <1>7, <1>8, <1>9, <1>10 DEF VInv

\* The history from the first place of a value on.
LEMMA FromIs ==
    ASSUME NEW n \in Nat, NEW s \in Seq(0 .. n), NEW v \in 0 .. n, NEW q, FirstOf(s, v, q)
    PROVE  /\ From(s, v) \in Seq(0 .. n) /\ q \in Nat /\ q >= 1
           /\ \A p \in DOMAIN s : p >= q => p - q + 1 \in DOMAIN From(s, v) /\ From(s, v)[p - q + 1] = s[p]
           /\ \A p \in DOMAIN From(s, v) : p \in Nat /\ p + q - 1 \in DOMAIN s /\ From(s, v)[p] = s[p + q - 1]
           /\ v \in Range(From(s, v))
<1> DEFINE m == Len(s)
           at == {i \in DOMAIN s : s[i] = v}
<1>1. m \in Nat /\ DOMAIN s = 1 .. m /\ \A i \in 1 .. m : s[i] \in 0 .. n
  BY LenProperties, ElementOfSeq
<1> HIDE DEF m
<1>2. q \in 1 .. m /\ s[q] = v /\ \A p \in 1 .. m : p < q => s[p] < v
  BY <1>1 DEF FirstOf
<1>3. q \in at /\ at \subseteq Nat /\ \A i \in at : q <= i
  BY <1>1, <1>2
<1>4. Updating!Min(at) = Min(at)
  BY DEF Min, Updating!Min
<1>5. Min(at) \in at /\ \A i \in at : Min(at) <= i
  <2> HIDE DEF at
  <2> QED BY <1>3, <1>4, Updating!MinIs
<1>6. Min(at) = q
  <2> HIDE DEF at
  <2>1. Min(at) <= q /\ q <= Min(at) /\ q \in Nat /\ Min(at) \in Nat
    BY <1>3, <1>5
  <2> QED BY <2>1
<1>7. From(s, v) = SubSeq(s, q, m)
  BY <1>1, <1>2, <1>6 DEF From, FirstAt, Range, m
<1>8. \A i \in q .. m : s[i] \in 0 .. n
  BY <1>1, <1>2
<1>9. /\ SubSeq(s, q, m) \in Seq(0 .. n)
      /\ Len(SubSeq(s, q, m)) = m - q + 1
      /\ \A i \in 1 .. m - q + 1 : SubSeq(s, q, m)[i] = s[q + i - 1]
  BY <1>1, <1>2, <1>8, SubSeqProperties
<1> DEFINE f == From(s, v)
<1> HIDE DEF f
<1>10. f \in Seq(0 .. n) /\ DOMAIN f = 1 .. m - q + 1 /\ \A i \in 1 .. m - q + 1 : f[i] = s[q + i - 1]
  BY <1>7, <1>9, LenProperties DEF f
<1>11. ASSUME NEW p \in DOMAIN s, p >= q PROVE p - q + 1 \in DOMAIN f /\ f[p - q + 1] = s[p]
  <2>1. p - q + 1 \in 1 .. m - q + 1 /\ q + (p - q + 1) - 1 = p
    BY <1>1, <1>2, <1>11
  <2>2. f[p - q + 1] = s[q + (p - q + 1) - 1]
    BY <1>10, <2>1
  <2> QED BY <1>10, <2>1, <2>2
<1>12. ASSUME NEW p \in DOMAIN f PROVE p \in Nat /\ p + q - 1 \in DOMAIN s /\ f[p] = s[p + q - 1]
  <2>1. p \in 1 .. m - q + 1
    BY <1>10
  <2>2. p \in Nat /\ p + q - 1 \in 1 .. m /\ q + p - 1 = p + q - 1
    BY <1>1, <1>2, <2>1
  <2>3. f[p] = s[q + p - 1]
    BY <1>10, <2>1
  <2> QED BY <1>1, <2>2, <2>3
<1>13. 1 \in DOMAIN f /\ f[1] = v
  <2>1. q >= q /\ q - q + 1 = 1
    BY <1>1, <1>2
  <2> QED BY <1>1, <1>2, <1>11, <2>1
<1>14. v \in Range(f)
  BY <1>13, RangeIs
<1> QED BY <1>2, <1>10, <1>11, <1>12, <1>14 DEF f

\* A later value is later in the history, and first there after the cut too.
LEMMA FirstAfter ==
    ASSUME NEW n \in Nat, NEW s \in Seq(0 .. n), NEW v \in 0 .. n, NEW q, FirstOf(s, v, q),
           NEW w \in 0 .. n, v < w, NEW r, FirstOf(s, w, r)
    PROVE  r - q + 1 \in Nat /\ FirstOf(From(s, v), w, r - q + 1) /\ q < r
<1> DEFINE f == From(s, v)
<1>1. /\ q \in Nat /\ q >= 1
      /\ \A p \in DOMAIN s : p >= q => p - q + 1 \in DOMAIN f /\ f[p - q + 1] = s[p]
      /\ \A p \in DOMAIN f : p \in Nat /\ p + q - 1 \in DOMAIN s /\ f[p] = s[p + q - 1]
  BY FromIs
<1> HIDE DEF f
<1>2. /\ q \in DOMAIN s /\ s[q] = v /\ r \in DOMAIN s /\ s[r] = w
      /\ (\A p \in DOMAIN s : p < q => s[p] < v) /\ \A p \in DOMAIN s : p < r => s[p] < w
  BY DEF FirstOf
<1>3. r \in Nat
  BY <1>2, LenProperties
<1>4. q < r
  <2>1. q # r
    BY <1>2
  <2>2. ~(r < q)
    BY <1>2
  <2> QED BY <1>1, <1>3, <2>1, <2>2
<1>5. r - q + 1 \in Nat /\ r - q + 1 \in DOMAIN f /\ f[r - q + 1] = w
  BY <1>1, <1>2, <1>3, <1>4
<1>6. ASSUME NEW p \in DOMAIN f, p < r - q + 1 PROVE f[p] < w
  <2>1. p \in Nat /\ p + q - 1 \in DOMAIN s /\ f[p] = s[p + q - 1]
    BY <1>1
  <2>2. p + q - 1 < r
    BY <1>1, <1>3, <1>6, <2>1
  <2> QED BY <1>2, <2>1, <2>2
<1> QED BY <1>4, <1>5, <1>6 DEF FirstOf, f

\* A value is first at one place.
LEMMA FirstOnce ==
    ASSUME NEW n \in Nat, NEW s \in Seq(0 .. n), NEW v, NEW q, FirstOf(s, v, q),
           NEW r, FirstOf(s, v, r)
    PROVE  q = r
<1>1. DOMAIN s \subseteq Nat /\ \A i \in DOMAIN s : s[i] \in Nat
  BY LenProperties, ElementOfSeq
<1>2. q \in Nat /\ r \in Nat /\ s[q] = v /\ s[r] = v /\ v \in Nat
  BY <1>1 DEF FirstOf
<1>3. ~(q < r) /\ ~(r < q)
  BY <1>2 DEF FirstOf
<1> QED BY <1>2, <1>3

LEMMA HookRunsKeepsValues ==
    ASSUME VInv, IInv, HookRuns
    PROVE  VInv'
<1> DEFINE key == pending[1].key
           v == pending[1].value
           e == Update(key, v)
<1>1. /\ pending # <<>> /\ pending' = Tail(pending) /\ lost' = lost
      /\ proc' = proc /\ context' = context /\ talk' = talk /\ rewinding' = rewinding
      /\ file' = file /\ writes' = writes
      /\ journal' = Append(journal, Entry(Head(pending)))
      /\ since' = [since EXCEPT ![Head(pending).key] = From(@, Head(pending).value)]
  BY DEF HookRuns, Writes, bounds
<1>2. /\ pending[1] \in Write(writes) /\ Head(pending) = pending[1]
      /\ pending' \in Seq(Write(writes)) /\ 1 \in DOMAIN pending
      /\ \A i \in DOMAIN pending' : i \in Nat /\ i + 1 \in DOMAIN pending /\ pending'[i] = pending[i + 1]
  BY <1>1, Parts, PendingTail
<1>3. /\ PendingOrder'
      /\ \A i \in DOMAIN pending' : v < pending'[i].value
      /\ \A k : Pending(k) <=> (Pending(k))' \/ k = key
      /\ \A k, i : (LastOf(k, i))' => LastOf(k, i + 1)
      /\ \A k : k = key /\ ~(Pending(k))' => LastOf(k, 1)
  BY <1>1, TailOrder
<1>4. /\ writes \in Nat /\ key \in Keys /\ v \in 1 .. writes /\ v \in 0 .. writes
      /\ \A i \in DOMAIN pending' : pending'[i].value \in 0 .. writes /\ pending'[i].key \in Keys
      /\ file \in Files(writes) /\ journal \in Seq(Entries(writes))
      /\ since \in [Keys -> Seq(0 .. writes)] /\ since[key] \in Seq(0 .. writes)
      /\ context \in [Keys -> 0 .. writes]
  <2>1. \A i \in DOMAIN pending' : pending'[i] \in Write(writes)
    BY <1>2, ElementOfSeq, LenProperties
  <2>2. /\ writes \in Nat /\ file \in Files(writes) /\ journal \in Seq(Entries(writes))
        /\ since \in [Keys -> Seq(0 .. writes)] /\ context \in [Keys -> 0 .. writes]
    BY Parts DEF Typed
  <2>3. \A w \in Write(writes) : w.key \in Keys /\ w.value \in 1 .. writes /\ w.value \in 0 .. writes
    BY <2>2 DEF Write
  <2>4. key \in Keys /\ v \in 1 .. writes /\ v \in 0 .. writes
    BY <1>2, <2>3
  <2>5. \A i \in DOMAIN pending' : pending'[i].value \in 0 .. writes /\ pending'[i].key \in Keys
    BY <2>1, <2>3
  <2> HIDE DEF key, v
  <2> QED BY <2>2, <2>4, <2>5
<1>5. /\ e \in Entries(writes) /\ e.type = "context_update" /\ e.key = key /\ e.value = v
      /\ e.type # "checkpoint"
  BY <1>4 DEF Entries, Update
<1>6. journal' = Append(journal, e)
  BY <1>1, <1>2 DEF Entry
<1>7. PICK q : FirstOf(since[key], v, q)
  BY <1>2, Parts DEF PendingSince
<1>8. since' = [since EXCEPT ![key] = From(since[key], v)]
  BY <1>1, <1>2
<1> HIDE DEF key, v, e
<1>9. /\ since'[key] = From(since[key], v)
      /\ \A k \in Keys : k # key => since'[k] = since[k]
  BY <1>4, <1>8
<1> DEFINE s == since[key]
           f == From(s, v)
<1>10. /\ f \in Seq(0 .. writes) /\ q \in Nat
       /\ \A p \in DOMAIN s : p >= q => p - q + 1 \in DOMAIN f /\ f[p - q + 1] = s[p]
       /\ v \in Range(f)
  <2>1. FirstOf(s, v, q) /\ s \in Seq(0 .. writes) /\ v \in 0 .. writes /\ writes \in Nat
    BY <1>4, <1>7
  <2> HIDE DEF s
  <2> QED BY <2>1, FromIs
<1>11. \A w \in 0 .. writes : \A r : v < w /\ FirstOf(s, w, r) =>
            r - q + 1 \in Nat /\ FirstOf(f, w, r - q + 1) /\ q < r
  <2>1. FirstOf(s, v, q) /\ s \in Seq(0 .. writes) /\ v \in 0 .. writes /\ writes \in Nat
    BY <1>4, <1>7
  <2> HIDE DEF s
  <2> QED BY <2>1, FirstAfter
<1> HIDE DEF f
<1>12. since'[key] = f
  BY <1>9 DEF f
<1>13. /\ journal' \in Seq(Entries(writes))
       /\ CheckpointsOf(journal') = CheckpointsOf(journal)
       /\ Good(file, journal) => Found(file, journal') = Updated(Found(file, journal), e)
       /\ Reconstruct(journal').context = Updated(Reconstruct(journal).context, e)
  <2>1. Append(journal, e) \in Seq(Entries(writes))
    BY <1>4, <1>5, AppendProperties
  <2> QED BY <1>4, <1>5, <1>6, <2>1, FoundAppend
<1>14. /\ Good(file', journal') <=> Good(file, journal)
       /\ \A k \in Keys : Good(file, journal) =>
             Found(file', journal')[k] = IF k = key THEN v ELSE Found(file, journal)[k]
       /\ \A k \in Keys : Reconstruct(journal').context[k] =
             IF k = key THEN v ELSE Reconstruct(journal).context[k]
  <2>1. Found(file, journal) \in [Keys -> 0 .. writes] /\ Reconstruct(journal).context \in [Keys -> 0 .. writes]
    BY <1>4, FoundTyped DEF State
  <2>2. ASSUME NEW c \in [Keys -> 0 .. writes], NEW k \in Keys
        PROVE  Updated(c, e)[k] = IF k = key THEN v ELSE c[k]
    <3>1. Updated(c, e)[k] = IF e.type = "context_update" /\ e.key = k THEN e.value ELSE c[k]
      BY <1>4, <1>5, UpdatedIs
    <3> QED BY <1>5, <3>1
  <2> QED BY <1>1, <1>13, <2>1, <2>2 DEF Good
<1>15. Typed'
  <2>1. since' \in [Keys -> Seq(0 .. writes)]
    BY <1>4, <1>8, <1>10 DEF f
  <2> QED BY <1>1, <1>2, <1>13, <2>1, Parts DEF Typed
<1>16. GoneBlank' /\ FileFirst'
  <2>1. proc # "gone"
    BY <1>1, Parts DEF GoneBlank
  <2> QED BY <1>1, <1>13, <2>1, Parts DEF GoneBlank, FileFirst
<1>17. PendingLast'
  BY <1>1, <1>2, <1>3, Parts DEF PendingLast, LastOf
<1>18. PendingSince'
  <2> SUFFICES ASSUME NEW i \in DOMAIN pending'
               PROVE  \E r \in Nat : FirstOf(since'[pending'[i].key], pending'[i].value, r)
    BY DEF PendingSince
  <2>1. PICK r \in Nat : FirstOf(since[pending'[i].key], pending'[i].value, r)
    BY <1>2, Parts DEF PendingSince
  <2>2. CASE pending'[i].key = key
    BY <1>3, <1>4, <1>11, <1>12, <2>1, <2>2
  <2>3. CASE pending'[i].key # key
    BY <1>4, <1>9, <2>1, <2>3
  <2> QED BY <2>2, <2>3
<1>19. LiveSince'
  <2> SUFFICES ASSUME file # <<>>, CheckpointsOf(journal) # {}, proc # "gone", NEW k \in Keys
               PROVE  (Stands(k))' \/ (Untouched(k))'
    BY <1>1, <1>13 DEF LiveSince
  <2>1. Stands(k) \/ Untouched(k)
    BY Parts DEF LiveSince
  <2>2. CASE k # key
    <3>1. since'[k] = since[k]
      BY <1>9, <2>2
    <3>2. ASSUME Untouched(k) PROVE (Untouched(k))'
      BY <1>1, <1>3, <3>2 DEF Untouched
    <3>3. ASSUME Stands(k) PROVE (Stands(k))'
      <4>1. PICK c \in DOMAIN since[k] :
               /\ since[k][c] = context[k]
               /\ \A i \in DOMAIN pending : pending[i].key = k =>
                     \E r \in Nat : r <= c /\ FirstOf(since[k], pending[i].value, r)
        BY <3>3 DEF Stands
      <4>2. \A i \in DOMAIN pending' : pending'[i].key = k =>
               \E r \in Nat : r <= c /\ FirstOf(since[k], pending'[i].value, r)
        BY <1>2, <4>1
      <4> QED BY <1>1, <3>1, <4>1, <4>2 DEF Stands
    <3> QED BY <2>1, <3>2, <3>3
  <2>3. CASE k = key
    <3>1. ~Untouched(k)
      BY <1>3, <2>3 DEF Untouched
    <3>2. PICK c \in DOMAIN s :
             /\ s[c] = context[key]
             /\ \A i \in DOMAIN pending : pending[i].key = key =>
                   \E r \in Nat : r <= c /\ FirstOf(s, pending[i].value, r)
      BY <2>1, <2>3, <3>1 DEF Stands
    <3>3. c \in Nat
      BY <1>4, LenProperties
    <3>4. c >= q
      <4>1. PICK r \in Nat : r <= c /\ FirstOf(s, v, r)
        BY <1>2, <3>2 DEF key, v
      <4>2. r = q
        <5>1. s \in Seq(0 .. writes) /\ FirstOf(s, v, q) /\ FirstOf(s, v, r)
          BY <1>4, <1>7, <4>1
        <5> HIDE DEF s
        <5> QED BY <1>4, <5>1, FirstOnce
      <4> QED BY <1>10, <3>3, <4>1, <4>2
    <3>5. c - q + 1 \in DOMAIN f /\ f[c - q + 1] = context[key]
      BY <1>10, <3>2, <3>4
    <3>6. ASSUME NEW i \in DOMAIN pending', pending'[i].key = key
          PROVE  \E r \in Nat : r <= c - q + 1 /\ FirstOf(f, pending'[i].value, r)
      <4>1. i + 1 \in DOMAIN pending /\ pending'[i] = pending[i + 1]
        BY <1>2
      <4>2. PICK r \in Nat : r <= c /\ FirstOf(s, pending'[i].value, r)
        BY <3>2, <3>6, <4>1
      <4>3. r - q + 1 \in Nat /\ FirstOf(f, pending'[i].value, r - q + 1)
        BY <1>3, <1>4, <1>11, <4>2
      <4>4. r - q + 1 <= c - q + 1
        BY <1>10, <3>3, <4>2
      <4> QED BY <4>3, <4>4
    <3>7. (Stands(k))' <=> \E d \in DOMAIN since'[k] :
             /\ since'[k][d] = context'[k]
             /\ \A i \in DOMAIN pending' : pending'[i].key = k =>
                   \E r \in Nat : r <= d /\ FirstOf(since'[k], pending'[i].value, r)
      BY DEF Stands
    <3>8. since'[k] = f /\ context'[k] = context[key]
      BY <1>1, <1>12, <2>3
    <3> HIDE DEF s
    <3> QED BY <2>3, <3>5, <3>6, <3>7, <3>8
  <2> QED BY <2>2, <2>3
<1>20. FoundSince'
  BY <1>1, <1>9, <1>10, <1>12, <1>14, Parts DEF FoundSince
<1>21. ReadersAgree'
  BY <1>1, <1>14, Parts DEF ReadersAgree
<1>22. ASSUME NEW k \in Keys, k \notin Lagging', ~rewinding
       PROVE  IF k = key THEN v = context[k] ELSE k \notin Lagging
  <2>1. CASE k = key
    <3>1. k \notin lost /\ ~(Pending(k))'
      BY <1>1, <1>22 DEF Lagging
    <3>2. LastOf(k, 1)
      BY <1>3, <2>1, <3>1
    <3> QED BY <1>2, <1>22, <2>1, <3>1, <3>2, Parts DEF PendingLast, v
  <2>2. CASE k # key
    BY <1>1, <1>3, <1>22, <2>2 DEF Lagging
  <2> QED BY <2>1, <2>2
<1>23. FreshExact'
  <2>1. proc = "fresh" => ~rewinding
    BY DEF IInv, EventTypes, Down
  <2> QED BY <1>1, <1>14, <1>22, <2>1, Parts DEF FreshExact
<1>24. RewindExact'
  BY <1>1, <1>14, <1>22, Parts DEF RewindExact
<1> QED BY <1>3, <1>15, <1>16, <1>17, <1>18, <1>19, <1>20, <1>21, <1>23, <1>24 DEF VInv

-----------------------------------------------------------------------------
(* Writes, and values that a recovery or a rewind puts back *)

LEMMA TypesGrow ==
    ASSUME NEW n \in Nat, NEW m \in Nat, n <= m
    PROVE  /\ Saved(n) \subseteq Saved(m) /\ Files(n) \subseteq Files(m)
           /\ Seq(Entries(n)) \subseteq Seq(Entries(m)) /\ Seq(Write(n)) \subseteq Seq(Write(m))
           /\ Seq(0 .. n) \subseteq Seq(0 .. m)
<1>1. 0 .. n \subseteq 0 .. m /\ 1 .. n \subseteq 1 .. m
  OBVIOUS
<1>2. Saved(n) \subseteq Saved(m)
  BY <1>1 DEF Saved
<1>3. Write(n) \subseteq Write(m)
  BY <1>1 DEF Write
<1>4. {Update(k, v) : k \in Keys, v \in 0 .. n} \subseteq {Update(k, v) : k \in Keys, v \in 0 .. m}
  BY <1>1
<1>5. Entries(n) \subseteq Entries(m)
  BY <1>2, <1>4 DEF Entries
<1>6. Files(n) \subseteq Files(m)
  BY <1>2 DEF Files
<1>7. \A S, T : S \subseteq T => Seq(S) \subseteq Seq(T)
  <2> SUFFICES ASSUME NEW S, NEW T, S \subseteq T, NEW s \in Seq(S) PROVE s \in Seq(T)
    OBVIOUS
  <2>1. \A i \in 1 .. Len(s) : s[i] \in T
    BY ElementOfSeq
  <2> QED BY <2>1, LenProperties
<1> QED BY <1>1, <1>2, <1>3, <1>5, <1>6, <1>7

\* One more value in the history of a key.
LEMMA SinceAppend ==
    ASSUME NEW n \in Nat, NEW s \in Seq(0 .. n), NEW v \in Nat
    PROVE  /\ Range(s) \subseteq Range(Append(s, v)) /\ v \in Range(Append(s, v))
           /\ \A w, q : FirstOf(s, w, q) => FirstOf(Append(s, v), w, q) /\ q <= Len(s) + 1
           /\ Len(s) + 1 \in DOMAIN Append(s, v) /\ Append(s, v)[Len(s) + 1] = v
           /\ v > n => FirstOf(Append(s, v), v, Len(s) + 1)
           /\ Len(s) \in Nat
<1> DEFINE m == Len(s)
           a == Append(s, v)
<1>1. m \in Nat /\ DOMAIN s = 1 .. m /\ \A i \in 1 .. m : s[i] \in 0 .. n
  BY LenProperties, ElementOfSeq
<1>2. s \in Seq(Nat)
  BY <1>1, LenProperties
<1>3. Len(a) = m + 1 /\ (\A i \in 1 .. m : a[i] = s[i]) /\ a[m + 1] = v /\ a \in Seq(Nat)
  BY <1>2, AppendProperties
<1> HIDE DEF m, a
<1>4. DOMAIN a = 1 .. m + 1
  BY <1>3, LenProperties
<1>5. Range(s) \subseteq Range(a) /\ v \in Range(a)
  BY <1>1, <1>3, <1>4, RangeIs
<1>6. ASSUME NEW w, NEW q, FirstOf(s, w, q) PROVE FirstOf(a, w, q) /\ q <= m + 1
  BY <1>1, <1>3, <1>4, <1>6 DEF FirstOf
<1>7. ASSUME v > n PROVE FirstOf(a, v, m + 1)
  BY <1>1, <1>3, <1>4, <1>7 DEF FirstOf
<1>8. m + 1 \in DOMAIN a /\ a[m + 1] = v /\ m \in Nat
  BY <1>1, <1>3, <1>4
<1> QED BY <1>5, <1>6, <1>7, <1>8 DEF m, a

LEMMA PutKeepsValues ==
    ASSUME VInv, NEW k \in Keys, Put(k)
    PROVE  VInv'
<1> DEFINE w == writes + 1
           h == [key |-> k, value |-> w]
           n == Len(pending)
<1>1. /\ proc # "gone" /\ writes < MaxWrites /\ writes' = w
      /\ context' = [context EXCEPT ![k] = w] /\ pending' = Append(pending, h)
      /\ since' = [since EXCEPT ![k] = Append(since[k], w)]
      /\ proc' = proc /\ talk' = talk /\ rewinding' = rewinding /\ journal' = journal
      /\ file' = file /\ lost' = lost
  BY DEF Put
<1>2. /\ writes \in Nat /\ w \in Nat /\ writes <= w /\ writes < w /\ w <= MaxWrites
      /\ context \in [Keys -> 0 .. writes] /\ pending \in Seq(Write(writes))
      /\ file \in Files(writes) /\ journal \in Seq(Entries(writes))
      /\ since \in [Keys -> Seq(0 .. writes)]
  BY <1>1, Parts, BoundsAssumption DEF Typed
<1>3. /\ file \in Files(w) /\ journal \in Seq(Entries(w))
      /\ pending \in Seq(Write(w)) /\ since \in [Keys -> Seq(0 .. w)]
  <2> HIDE DEF w
  <2> QED BY <1>2, TypesGrow
<1>4. h \in Write(w) /\ h.key = k /\ h.value = w
  BY <1>2 DEF Write
<1> HIDE DEF h, w
<1>5. /\ pending' \in Seq(Write(w)) /\ n \in Nat
      /\ DOMAIN pending = 1 .. n /\ DOMAIN pending' = 1 .. n + 1
      /\ (\A i \in 1 .. n : pending'[i] = pending[i]) /\ pending'[n + 1] = h
  BY <1>1, <1>3, <1>4, AppendProperties, LenProperties
<1>6. \A i \in 1 .. n : pending[i].key \in Keys /\ pending[i].value \in 1 .. writes
  <2>1. \A i \in 1 .. n : pending[i] \in Write(writes)
    BY <1>2, <1>5, ElementOfSeq
  <2> QED BY <2>1 DEF Write
<1> HIDE DEF n
<1>7. /\ context'[k] = w /\ \A j \in Keys : j # k => context'[j] = context[j]
      /\ since'[k] = Append(since[k], w) /\ \A j \in Keys : j # k => since'[j] = since[j]
  BY <1>1, <1>2
<1>8. /\ Range(since[k]) \subseteq Range(since'[k])
      /\ \A u, q : FirstOf(since[k], u, q) => FirstOf(since'[k], u, q) /\ q <= Len(since[k]) + 1
      /\ Len(since[k]) + 1 \in DOMAIN since'[k] /\ since'[k][Len(since[k]) + 1] = w
      /\ FirstOf(since'[k], w, Len(since[k]) + 1)
      /\ Len(since[k]) \in Nat
  <2>1. since[k] \in Seq(0 .. writes) /\ w \in Nat /\ w > writes
    BY <1>2
  <2> QED BY <1>2, <1>7, <2>1, SinceAppend
<1>9. Typed'
  <2>1. context' \in [Keys -> 0 .. w]
    BY <1>1, <1>2 DEF w
  <2>2. since' \in [Keys -> Seq(0 .. w)]
    <3>1. Append(since[k], w) \in Seq(0 .. w)
      <4>1. w \in 0 .. w /\ since[k] \in Seq(0 .. w)
        BY <1>2, <1>3
      <4> QED BY <4>1, AppendProperties
    <3> QED BY <1>1, <1>3, <3>1
  <2> QED BY <1>1, <1>2, <1>3, <1>5, <2>1, <2>2, Parts DEF Typed
<1>10. GoneBlank' /\ FileFirst'
  BY <1>1, Parts DEF GoneBlank, FileFirst
<1>11. PendingOrder'
  <2> SUFFICES ASSUME NEW i \in 1 .. n + 1, NEW j \in 1 .. n + 1, i < j
               PROVE  pending'[i].value < pending'[j].value
    BY <1>5 DEF PendingOrder
  <2>1. i \in 1 .. n /\ (j \in 1 .. n \/ j = n + 1)
    BY <1>5
  <2>2. CASE j \in 1 .. n
    BY <1>5, <2>1, <2>2, Parts DEF PendingOrder
  <2>3. CASE j = n + 1
    BY <1>2, <1>4, <1>5, <1>6, <2>1, <2>3
  <2> QED BY <2>1, <2>2, <2>3
<1>12. \A j : (Pending(j))' <=> Pending(j) \/ j = k
  <2>1. \A j : (Pending(j))' <=> \E i \in 1 .. n + 1 : pending'[i].key = j
    BY <1>5 DEF Pending
  <2>2. \A i \in 1 .. n + 1 : i \in 1 .. n \/ i = n + 1
    BY <1>5
  <2>3. 1 .. n \subseteq 1 .. n + 1 /\ n + 1 \in 1 .. n + 1
    BY <1>5
  <2>4. \A j : Pending(j) <=> \E i \in 1 .. n : pending[i].key = j
    BY <1>5 DEF Pending
  <2> QED BY <1>4, <1>5, <2>1, <2>2, <2>3, <2>4
<1>13. PendingLast'
  <2> SUFFICES ASSUME ~rewinding, NEW j \in Keys \ lost, NEW i \in 1 .. n + 1, (LastOf(j, i))'
               PROVE  pending'[i].value = context'[j]
    BY <1>1, <1>5 DEF PendingLast
  <2>1. CASE i = n + 1
    <3>1. j = k
      BY <1>4, <1>5, <2>1 DEF LastOf
    <3> QED BY <1>4, <1>5, <1>7, <2>1, <3>1
  <2>2. CASE i \in 1 .. n
    <3>1. n + 1 \in DOMAIN pending' /\ i < n + 1
      BY <1>5, <2>2
    <3>2. j # k
      BY <1>4, <1>5, <3>1 DEF LastOf
    <3>3. LastOf(j, i)
      BY <1>5, <2>2 DEF LastOf
    <3> QED BY <1>5, <1>7, <2>2, <3>2, <3>3, Parts DEF PendingLast
  <2>3. i = n + 1 \/ i \in 1 .. n
    BY <1>5
  <2> QED BY <2>1, <2>2, <2>3
<1>14. PendingSince'
  <2> SUFFICES ASSUME NEW i \in 1 .. n + 1
               PROVE  \E q \in Nat : FirstOf(since'[pending'[i].key], pending'[i].value, q)
    BY <1>5 DEF PendingSince
  <2>1. CASE i = n + 1
    BY <1>4, <1>5, <1>8, <2>1
  <2>2. CASE i \in 1 .. n
    <3>1. PICK q \in Nat : FirstOf(since[pending[i].key], pending[i].value, q)
      BY <1>5, <2>2, Parts DEF PendingSince
    <3>2. pending'[i] = pending[i] /\ pending[i].key \in Keys
      BY <1>5, <1>6, <2>2
    <3> QED BY <1>7, <1>8, <3>1, <3>2
  <2>3. i = n + 1 \/ i \in 1 .. n
    BY <1>5
  <2> QED BY <2>1, <2>2, <2>3
<1>15. LiveSince'
  <2> SUFFICES ASSUME file # <<>>, CheckpointsOf(journal) # {}, proc # "gone", NEW j \in Keys
               PROVE  (Stands(j))' \/ (Untouched(j))'
    BY <1>1 DEF LiveSince
  <2>0. (Stands(j))' <=> \E c \in DOMAIN since'[j] :
           /\ since'[j][c] = context'[j]
           /\ \A i \in 1 .. n + 1 : pending'[i].key = j =>
                 \E q \in Nat : q <= c /\ FirstOf(since'[j], pending'[i].value, q)
    BY <1>5 DEF Stands
  <2>1. CASE j = k
    <3> DEFINE c == Len(since[k]) + 1
    <3>1. ASSUME NEW i \in 1 .. n + 1, pending'[i].key = k
          PROVE  \E q \in Nat : q <= c /\ FirstOf(since'[k], pending'[i].value, q)
      <4>1. CASE i = n + 1
        <5>1. c \in Nat /\ c <= c /\ FirstOf(since'[k], pending'[i].value, c)
          BY <1>4, <1>5, <1>8, <4>1
        <5> QED BY <5>1
      <4>2. CASE i \in 1 .. n
        <5>1. PICK q \in Nat : FirstOf(since[k], pending[i].value, q)
          BY <1>5, <3>1, <4>2, Parts DEF PendingSince
        <5> QED BY <1>5, <1>8, <4>2, <5>1
      <4>3. i = n + 1 \/ i \in 1 .. n
        BY <1>5
      <4> QED BY <4>1, <4>2, <4>3
    <3>2. c \in DOMAIN since'[k] /\ since'[k][c] = context'[k]
      BY <1>7, <1>8
    <3> HIDE DEF c
    <3> QED BY <2>0, <2>1, <3>1, <3>2
  <2>2. CASE j # k
    <3>1. CASE Untouched(j)
      BY <1>1, <1>7, <1>12, <2>2, <3>1 DEF Untouched
    <3>2. CASE Stands(j)
      <4>1. PICK c \in DOMAIN since[j] :
               /\ since[j][c] = context[j]
               /\ \A i \in 1 .. n : pending[i].key = j =>
                     \E q \in Nat : q <= c /\ FirstOf(since[j], pending[i].value, q)
        BY <1>5, <3>2 DEF Stands
      <4>2. ASSUME NEW i \in 1 .. n + 1, pending'[i].key = j
            PROVE  i \in 1 .. n /\ pending'[i] = pending[i]
        BY <1>4, <1>5, <2>2, <4>2
      <4> QED BY <1>7, <2>0, <2>2, <4>1, <4>2
    <3> QED BY <3>1, <3>2, Parts DEF LiveSince
  <2> QED BY <2>1, <2>2
<1>16. FoundSince'
  BY <1>1, <1>7, <1>8, Parts DEF FoundSince
<1>17. ReadersAgree'
  BY <1>1, Parts DEF ReadersAgree
<1>18. Lagging' = Lagging \union {k}
  BY <1>1, <1>12 DEF Lagging
<1>19. FreshExact' /\ RewindExact'
  BY <1>1, <1>7, <1>18, Parts DEF FreshExact, RewindExact
<1> QED BY <1>9, <1>10, <1>11, <1>13, <1>14, <1>15, <1>16, <1>17, <1>19 DEF VInv

LEMMA RecoverKeepsValues ==
    ASSUME VInv, IInv, Recover
    PROVE  VInv'
<1> DEFINE found(k) == IF Recovered[k] # 0 THEN Recovered[k] ELSE context[k]
           undone == {k \in Keys : found(k) # context[k] /\ Pending(k)}
           unread == HasFile /\ CheckpointsOf(journal) = {}
<1>1. /\ proc = "fresh" /\ proc' = "idle" /\ pending' = pending /\ rewinding' = rewinding
      /\ file' = file /\ writes' = writes
  BY DEF Recover, bounds
<1>2. ~rewinding /\ proc' \notin Down /\ proc' \in Procs
  BY <1>1 DEF IInv, EventTypes, Down, Procs
<1>3. \/ /\ HasFile \/ Recovered # Blank
         /\ context' = [k \in Keys |-> found(k)]
         /\ talk' = IF HasFile THEN Snapshot.talk ELSE talk
         /\ journal' = Append(journal, Note("recovered"))
         /\ since' = [k \in Keys |-> IF k \in undone THEN Append(since[k], found(k))
                                  ELSE IF k \in Lagging THEN since[k]
                                  ELSE <<found(k)>>]
         /\ lost' = IF unread THEN Keys ELSE lost \union undone
      \/ /\ ~HasFile /\ Recovered = Blank
         /\ context' = context /\ talk' = talk /\ journal' = journal /\ since' = since
         /\ lost' = lost
  BY DEF Recover, Writes
<1>4. /\ writes \in Nat /\ context \in [Keys -> 0 .. writes] /\ lost \subseteq Keys
      /\ file \in Files(writes) /\ journal \in Seq(Entries(writes))
      /\ pending \in Seq(Write(writes)) /\ since \in [Keys -> Seq(0 .. writes)] /\ talk \in Talks
  BY Parts DEF Typed
<1>5. /\ journal' \in Seq(Entries(writes))
      /\ CheckpointsOf(journal') = CheckpointsOf(journal)
      /\ Good(file', journal') <=> Good(file, journal)
      /\ Good(file, journal) => Found(file', journal') = Found(file, journal)
      /\ Reconstruct(journal').context = Reconstruct(journal).context
  <2>1. journal' = journal \/ \E t \in Notes : journal' = Append(journal, Note(t))
    BY <1>3 DEF Notes
  <2> QED BY <1>1, <2>1, Parts, Noted
<1>6. Recovered = Found(file, journal) /\ Recovered \in [Keys -> 0 .. writes]
  BY <1>4, RecoveredIs, FoundTyped
<1>7. \A k \in Keys : found(k) \in 0 .. writes
  BY <1>4, <1>6
<1>8. Good(file, journal) <=> ~unread
  BY DEF Good, HasFile
<1>9. Good(file, journal) => \A k \in Keys : Recovered[k] \in Range(since[k])
  BY <1>6, Parts DEF FoundSince
<1>10. Good(file, journal) => \A k \in Keys \ lost : Recovered[k] = Reconstruct(journal).context[k]
  BY <1>6, Parts DEF ReadersAgree
<1>11. \A k \in Keys \ Lagging : context[k] = 0 \/ Reconstruct(journal).context[k] = context[k]
  BY <1>1, Parts DEF FreshExact
\* A key that recovery does not name, and that has no write of its own.
<1>12. ASSUME Good(file, journal), NEW k \in Keys, k \notin Lagging PROVE found(k) = Recovered[k]
  <2>1. k \notin lost
    BY <1>12 DEF Lagging
  <2> QED BY <1>10, <1>11, <1>12, <2>1
<1> HIDE DEF found, unread
<1>13. CASE /\ ~HasFile /\ Recovered = Blank
            /\ context' = context /\ talk' = talk /\ journal' = journal /\ since' = since
            /\ lost' = lost
  <2>1. Lagging' = Lagging
    BY <1>1, <1>13 DEF Lagging, Pending
  <2>2. Typed' /\ GoneBlank' /\ FileFirst'
    BY <1>1, <1>2, <1>13, Parts DEF Typed, GoneBlank, FileFirst
  <2>3. PendingOrder' /\ PendingLast' /\ PendingSince'
    BY <1>1, <1>13, Parts DEF PendingOrder, PendingLast, PendingSince, LastOf
  <2>4. LiveSince' /\ FreshExact'
    BY <1>1, <1>13 DEF LiveSince, FreshExact, HasFile
  <2>5. FoundSince' /\ ReadersAgree'
    BY <1>1, <1>5, <1>13, Parts DEF FoundSince, ReadersAgree
  <2>6. RewindExact'
    <3>1. Good(file, journal)
      BY <1>13 DEF Good, HasFile
    <3>2. \A k \in Keys \ Lagging : found(k) = context[k]
      BY <1>13 DEF found, Blank
    <3> QED BY <1>10, <1>11, <1>12, <1>13, <2>1, <3>1, <3>2 DEF RewindExact, Lagging
  <2> QED BY <2>2, <2>3, <2>4, <2>5, <2>6 DEF VInv
<1>14. CASE /\ HasFile \/ Recovered # Blank
            /\ context' = [k \in Keys |-> found(k)]
            /\ talk' = IF HasFile THEN Snapshot.talk ELSE talk
            /\ journal' = Append(journal, Note("recovered"))
            /\ since' = [k \in Keys |-> IF k \in undone THEN Append(since[k], found(k))
                                     ELSE IF k \in Lagging THEN since[k]
                                     ELSE <<found(k)>>]
            /\ lost' = IF unread THEN Keys ELSE lost \union undone
  <2>1. /\ undone \subseteq Keys /\ undone \subseteq Lagging
        /\ \A k \in Keys : k \in undone <=> found(k) # context[k] /\ Pending(k)
    BY DEF Lagging
  <2>2. /\ \A k \in Keys : context'[k] = found(k)
        /\ \A k \in Keys : k \in undone => since'[k] = Append(since[k], found(k))
        /\ \A k \in Keys : k \notin undone /\ k \in Lagging => since'[k] = since[k]
        /\ \A k \in Keys : k \notin Lagging => since'[k] = <<found(k)>>
    BY <1>14, <2>1
  <2>3. lost \subseteq lost' /\ lost' \subseteq Keys /\ (unread => lost' = Keys) /\ undone \subseteq lost'
    BY <1>4, <1>14, <2>1
  <2> HIDE DEF undone
  <2>4. \A k \in undone :
           /\ Range(since[k]) \subseteq Range(since'[k])
           /\ \A w, q : FirstOf(since[k], w, q) => FirstOf(since'[k], w, q) /\ q <= Len(since[k]) + 1
           /\ Len(since[k]) + 1 \in DOMAIN since'[k] /\ since'[k][Len(since[k]) + 1] = found(k)
    <3> SUFFICES ASSUME NEW k \in undone
                 PROVE  /\ Range(since[k]) \subseteq Range(since'[k])
                        /\ \A w, q : FirstOf(since[k], w, q) => FirstOf(since'[k], w, q) /\ q <= Len(since[k]) + 1
                        /\ Len(since[k]) + 1 \in DOMAIN since'[k] /\ since'[k][Len(since[k]) + 1] = found(k)
      OBVIOUS
    <3>1. k \in Keys /\ since[k] \in Seq(0 .. writes) /\ found(k) \in Nat /\ since'[k] = Append(since[k], found(k))
      BY <1>4, <1>7, <2>1, <2>2
    <3> QED BY <1>4, <3>1, SinceAppend
  <2>5. Typed'
    <3>1. since' \in [Keys -> Seq(0 .. writes)]
      <4>1. \A k \in Keys : since'[k] \in Seq(0 .. writes)
        <5> SUFFICES ASSUME NEW k \in Keys PROVE since'[k] \in Seq(0 .. writes)
          OBVIOUS
        <5>1. since[k] \in Seq(0 .. writes) /\ found(k) \in 0 .. writes
          BY <1>4, <1>7
        <5>2. Append(since[k], found(k)) \in Seq(0 .. writes)
          BY <5>1, AppendProperties
        <5>3. <<found(k)>> \in Seq(0 .. writes)
          BY <5>1
        <5> QED BY <2>2, <5>1, <5>2, <5>3
      <4> QED BY <1>14, <4>1
    <3>2. context' \in [Keys -> 0 .. writes]
      BY <1>7, <1>14
    <3>3. talk' \in Talks
      BY <1>4, <1>14 DEF HasFile, Snapshot, Files, Saved
    <3> QED BY <1>1, <1>2, <1>4, <1>5, <2>3, <3>1, <3>2, <3>3, Parts DEF Typed
  <2>6. GoneBlank' /\ FileFirst'
    BY <1>1, <1>2, <1>5, Parts DEF GoneBlank, FileFirst, Down
  <2>7. \A k : (Pending(k))' <=> Pending(k)
    BY <1>1 DEF Pending
  <2>8. PendingOrder'
    BY <1>1, Parts DEF PendingOrder
  <2>9. PendingLast'
    <3> SUFFICES ASSUME NEW k \in Keys \ lost', NEW i \in DOMAIN pending, LastOf(k, i)
                 PROVE  pending[i].value = context'[k]
      BY <1>1 DEF PendingLast, LastOf
    <3>1. Pending(k) /\ k \notin undone /\ k \notin lost
      BY <2>3 DEF Pending, LastOf
    <3>2. context'[k] = context[k]
      BY <2>1, <2>2, <3>1
    <3> QED BY <1>2, <3>1, <3>2, Parts DEF PendingLast
  <2>10. PendingSince'
    <3> SUFFICES ASSUME NEW i \in DOMAIN pending
                 PROVE  \E q \in Nat : FirstOf(since'[pending[i].key], pending[i].value, q)
      BY <1>1 DEF PendingSince
    <3>1. PICK q \in Nat : FirstOf(since[pending[i].key], pending[i].value, q)
      BY Parts DEF PendingSince
    <3>2. pending[i].key \in Keys /\ pending[i].key \in Lagging
      <4>1. pending[i] \in Write(writes)
        BY <1>4, ElementOfSeq, LenProperties
      <4>2. pending[i].key \in Keys
        BY <4>1 DEF Write
      <4> QED BY <4>2 DEF Lagging, Pending
    <3> QED BY <2>2, <2>4, <3>1, <3>2
  <2>11. LiveSince'
    <3> SUFFICES ASSUME file # <<>>, CheckpointsOf(journal) # {}, NEW k \in Keys
                 PROVE  (Stands(k))'
      BY <1>1, <1>5 DEF LiveSince
    <3>0. (Stands(k))' <=> \E c \in DOMAIN since'[k] :
             /\ since'[k][c] = found(k)
             /\ \A i \in DOMAIN pending : pending[i].key = k =>
                   \E q \in Nat : q <= c /\ FirstOf(since'[k], pending[i].value, q)
      BY <1>1, <2>2 DEF Stands
    <3>1. Good(file, journal)
      BY DEF Good
    <3>2. CASE k \in undone
      <4>1. ASSUME NEW i \in DOMAIN pending, pending[i].key = k
            PROVE  \E q \in Nat : q <= Len(since[k]) + 1 /\ FirstOf(since'[k], pending[i].value, q)
        <5>1. PICK q \in Nat : FirstOf(since[k], pending[i].value, q)
          BY <4>1, Parts DEF PendingSince
        <5> QED BY <2>4, <3>2, <5>1
      <4> QED BY <2>4, <3>0, <3>2, <4>1
    <3>3. CASE ~Pending(k)
      <4>1. found(k) \in Range(since'[k])
        <5>1. CASE k \notin Lagging
          <6>1. since'[k] = <<found(k)>>
            BY <2>2, <5>1
          <6>2. 1 \in DOMAIN <<found(k)>> /\ <<found(k)>>[1] = found(k)
            OBVIOUS
          <6> QED BY <6>1, <6>2, RangeIs
        <5>2. CASE k \in Lagging
          <6>1. since'[k] = since[k]
            BY <2>1, <2>2, <3>3, <5>2
          <6>2. CASE found(k) = Recovered[k]
            BY <1>9, <3>1, <6>1, <6>2
          <6>3. CASE found(k) # Recovered[k]
            <7>1. Recovered[k] = 0 /\ found(k) = context[k] /\ context[k] # 0
              BY <6>3 DEF found
            <7>2. Stands(k)
              BY <1>1, <7>1, Parts DEF LiveSince, Untouched
            <7> QED BY <6>1, <7>1, <7>2, RangeIs DEF Stands
          <6> QED BY <6>2, <6>3
        <5> QED BY <5>1, <5>2
      <4> QED BY <3>0, <3>3, <4>1, RangeIs DEF Pending
    <3>4. CASE k \notin undone /\ Pending(k)
      <4>1. found(k) = context[k] /\ k \in Lagging /\ since'[k] = since[k]
        BY <2>1, <2>2, <3>4 DEF Lagging
      <4>2. Stands(k)
        BY <1>1, <3>4, Parts DEF LiveSince, Untouched
      <4> QED BY <3>0, <4>1, <4>2 DEF Stands
    <3> QED BY <3>2, <3>3, <3>4
  <2>12. FoundSince'
    <3> SUFFICES ASSUME Good(file, journal), NEW k \in Keys
                 PROVE  Recovered[k] \in Range(since'[k])
      BY <1>5, <1>6 DEF FoundSince
    <3>1. CASE k \in Lagging
      BY <1>9, <2>2, <2>4, <3>1
    <3>2. CASE k \notin Lagging
      <4>1. since'[k] = <<Recovered[k]>>
        BY <1>12, <2>2, <3>2
      <4>2. 1 \in DOMAIN <<Recovered[k]>> /\ <<Recovered[k]>>[1] = Recovered[k]
        OBVIOUS
      <4> QED BY <4>1, <4>2, RangeIs
    <3> QED BY <3>1, <3>2
  <2>13. ReadersAgree'
    BY <1>5, <2>3, Parts DEF ReadersAgree
  <2>14. FreshExact'
    BY <1>1 DEF FreshExact
  <2>15. RewindExact'
    <3> SUFFICES ASSUME NEW k \in Keys, k \notin lost', ~Pending(k)
                 PROVE  Reconstruct(journal').context[k] = context'[k]
      BY <2>7 DEF RewindExact, Lagging
    <3>1. k \notin lost /\ k \notin Lagging /\ Good(file, journal)
      BY <1>8, <2>3 DEF Lagging
    <3> QED BY <1>5, <1>10, <1>12, <2>2, <3>1
  <2> QED BY <2>5, <2>6, <2>8, <2>9, <2>10, <2>11, <2>12, <2>13, <2>14, <2>15 DEF VInv
<1> QED BY <1>3, <1>13, <1>14

LEMMA RewindKeepsValues ==
    ASSUME VInv, NEW t \in DOMAIN journal, NEW mode \in Modes, Rewind(t, mode)
    PROVE  VInv'
<1> DEFINE before == Reconstruct(SubSeq(journal, 1, t - 1))
<1>1. /\ proc \notin {"gone", "fresh"} /\ rewinding' = TRUE /\ proc' = proc /\ pending' = pending
      /\ file' = file /\ lost' = lost /\ writes' = writes
      /\ journal' = Append(journal, Note("rewind"))
      /\ context' = IF mode \in {"both", "code_only"} THEN before.context ELSE context
      /\ talk' = CASE mode \in {"both", "conversation_only"} -> before.talk
                   [] mode = "summarize" -> talk \union {"note"}
                   [] OTHER -> talk
      /\ since' = [k \in Keys |-> IF context'[k] = context[k] THEN since[k]
                               ELSE Append(since[k], context'[k])]
  BY DEF Rewind, Writes, Trouble
<1>2. /\ writes \in Nat /\ context \in [Keys -> 0 .. writes] /\ talk \in Talks
      /\ journal \in Seq(Entries(writes)) /\ since \in [Keys -> Seq(0 .. writes)]
      /\ pending \in Seq(Write(writes))
  BY Parts DEF Typed
<1>3. before \in State(writes)
  <2>1. t \in 1 .. Len(journal) /\ Len(journal) \in Nat
    BY <1>2, LenProperties
  <2>2. \A i \in 1 .. t - 1 : journal[i] \in Entries(writes)
    BY <1>2, <2>1, ElementOfSeq
  <2>3. SubSeq(journal, 1, t - 1) \in Seq(Entries(writes))
    BY <2>1, <2>2, SubSeqProperties
  <2> QED BY <1>2, <2>3, ReadersTyped
<1> HIDE DEF before
<1>4. context' \in [Keys -> 0 .. writes] /\ talk' \in Talks
  <2>1. context' \in [Keys -> 0 .. writes]
    BY <1>1, <1>2, <1>3 DEF State
  <2>2. before.talk \in Talks /\ talk \union {"note"} \in Talks
    BY <1>2, <1>3 DEF State, Talks
  <2>3. talk' \in {before.talk, talk \union {"note"}, talk}
    BY <1>1 DEF Modes
  <2> QED BY <1>2, <2>1, <2>2, <2>3
<1>5. /\ journal' \in Seq(Entries(writes))
      /\ CheckpointsOf(journal') = CheckpointsOf(journal)
      /\ Good(file', journal') <=> Good(file, journal)
      /\ Good(file, journal) => Found(file', journal') = Found(file, journal)
      /\ Reconstruct(journal').context = Reconstruct(journal).context
  <2>1. \E n \in Notes : journal' = Append(journal, Note(n))
    BY <1>1 DEF Notes
  <2> QED BY <1>1, <2>1, Parts, Noted
<1>6. \A k \in Keys :
         \/ context'[k] = context[k] /\ since'[k] = since[k]
         \/ /\ Range(since[k]) \subseteq Range(since'[k])
            /\ \A w, q : FirstOf(since[k], w, q) => FirstOf(since'[k], w, q) /\ q <= Len(since[k]) + 1
            /\ Len(since[k]) + 1 \in DOMAIN since'[k] /\ since'[k][Len(since[k]) + 1] = context'[k]
  <2> SUFFICES ASSUME NEW k \in Keys, context'[k] # context[k]
               PROVE  /\ Range(since[k]) \subseteq Range(since'[k])
                      /\ \A w, q : FirstOf(since[k], w, q) => FirstOf(since'[k], w, q) /\ q <= Len(since[k]) + 1
                      /\ Len(since[k]) + 1 \in DOMAIN since'[k] /\ since'[k][Len(since[k]) + 1] = context'[k]
    BY <1>1
  <2>1. since'[k] = Append(since[k], context'[k]) /\ since[k] \in Seq(0 .. writes) /\ context'[k] \in Nat
    BY <1>1, <1>2, <1>4
  <2> QED BY <1>2, <2>1, SinceAppend
<1>7. Typed'
  <2>1. \A k \in Keys : Append(since[k], context'[k]) \in Seq(0 .. writes) /\ since[k] \in Seq(0 .. writes)
    BY <1>2, <1>4, AppendProperties
  <2>2. since' \in [Keys -> Seq(0 .. writes)]
    BY <1>1, <2>1
  <2> QED BY <1>1, <1>4, <1>5, <2>2, Parts DEF Typed
<1>8. GoneBlank' /\ FileFirst' /\ PendingOrder' /\ PendingLast'
  BY <1>1, <1>5, Parts DEF GoneBlank, FileFirst, PendingOrder, PendingLast
<1>9. PendingSince'
  <2> SUFFICES ASSUME NEW i \in DOMAIN pending
               PROVE  \E q \in Nat : FirstOf(since'[pending[i].key], pending[i].value, q)
    BY <1>1 DEF PendingSince
  <2>1. PICK q \in Nat : FirstOf(since[pending[i].key], pending[i].value, q)
    BY Parts DEF PendingSince
  <2>2. pending[i] \in Write(writes)
    BY <1>2, ElementOfSeq, LenProperties
  <2>3. pending[i].key \in Keys
    BY <2>2 DEF Write
  <2> QED BY <1>6, <2>1, <2>3
<1>10. LiveSince'
  <2> SUFFICES ASSUME file # <<>>, CheckpointsOf(journal) # {}, NEW k \in Keys
               PROVE  (Stands(k))'
    BY <1>1, <1>5 DEF LiveSince
  <2>0. (Stands(k))' <=> \E c \in DOMAIN since'[k] :
           /\ since'[k][c] = context'[k]
           /\ \A i \in DOMAIN pending : pending[i].key = k =>
                 \E q \in Nat : q <= c /\ FirstOf(since'[k], pending[i].value, q)
    BY <1>1 DEF Stands
  <2>1. CASE context'[k] = context[k] /\ since'[k] = since[k]
    BY <1>1, <2>0, <2>1, Parts DEF LiveSince, Untouched, Stands
  <2>2. CASE /\ \A w, q : FirstOf(since[k], w, q) => FirstOf(since'[k], w, q) /\ q <= Len(since[k]) + 1
             /\ Len(since[k]) + 1 \in DOMAIN since'[k] /\ since'[k][Len(since[k]) + 1] = context'[k]
    <3>1. ASSUME NEW i \in DOMAIN pending, pending[i].key = k
          PROVE  \E q \in Nat : q <= Len(since[k]) + 1 /\ FirstOf(since'[k], pending[i].value, q)
      <4>1. PICK q \in Nat : FirstOf(since[k], pending[i].value, q)
        BY <3>1, Parts DEF PendingSince
      <4> QED BY <2>2, <4>1
    <3> QED BY <2>0, <2>2, <3>1
  <2> QED BY <1>6, <2>1, <2>2
<1>11. FoundSince'
  BY <1>1, <1>5, <1>6, Parts DEF FoundSince
<1>12. ReadersAgree' /\ FreshExact' /\ RewindExact'
  BY <1>1, <1>5, Parts DEF ReadersAgree, FreshExact, RewindExact
<1> QED BY <1>7, <1>8, <1>9, <1>10, <1>11, <1>12 DEF VInv

-----------------------------------------------------------------------------
(* Checkpoints *)

\* The file and the entry: the history of every key starts again.
LEMMA CheckpointWhole ==
    ASSUME VInv, proc \notin Down, proc' \in Procs \ Down, pending = <<>>, pending' = <<>>,
           context' = context, talk' = talk, writes' = writes, NEW s \in Saved(writes),
           s.context = context, file' = <<s>>, journal' = Append(journal, Checkpoint(s)),
           since' = [k \in Keys |-> <<context[k]>>], lost' = {}
    PROVE  VInv'
<1>1. /\ writes \in Nat /\ context \in [Keys -> 0 .. writes] /\ journal \in Seq(Entries(writes))
  BY Parts DEF Typed
<1>2. /\ CheckpointsOf(journal') # {} /\ Found(file', journal') = context
      /\ Reconstruct(journal').context = context
  BY <1>1, FoundCheckpoint
<1>3. Typed'
  <2>1. Checkpoint(s) \in Entries(writes)
    BY DEF Entries
  <2>2. journal' \in Seq(Entries(writes))
    BY <1>1, <2>1, AppendProperties
  <2>3. since' \in [Keys -> Seq(0 .. writes)]
    BY <1>1
  <2>4. file' \in Files(writes)
    BY DEF Files
  <2> QED BY <2>2, <2>3, <2>4, Parts DEF Typed
<1>4. GoneBlank' /\ FileFirst' /\ FreshExact'
  BY DEF GoneBlank, FileFirst, FreshExact, Down
<1>5. PendingOrder' /\ PendingLast' /\ PendingSince'
  BY DEF PendingOrder, PendingLast, PendingSince
<1>6. \A k \in Keys : 1 \in DOMAIN since'[k] /\ since'[k][1] = context[k]
  OBVIOUS
<1>7. LiveSince'
  BY <1>6 DEF LiveSince, Stands
<1>8. FoundSince'
  BY <1>2, <1>6, RangeIs DEF FoundSince
<1>9. ReadersAgree' /\ RewindExact'
  BY <1>2 DEF ReadersAgree, RewindExact
<1> QED BY <1>3, <1>4, <1>5, <1>7, <1>8, <1>9 DEF VInv

\* The entry, or both, are missing.  All writes have their entries, so a key
\* that the checkpoint entries say less of has its live value in the file.
LEMMA CheckpointTorn ==
    ASSUME VInv, proc \notin Down, proc' \in Procs \ Down, pending = <<>>, pending' = <<>>,
           context' = context, talk' = talk, writes' = writes, NEW s \in Saved(writes),
           s.context = context, file' = <<s>> \/ file' = file, journal' = journal,
           since' = since, lost' = IF rewinding THEN Keys ELSE lost
    PROVE  VInv'
<1>1. /\ writes \in Nat /\ journal \in Seq(Entries(writes)) /\ file \in Files(writes)
      /\ lost \subseteq Keys /\ <<s>> \in Files(writes) /\ <<s>> # <<>>
  BY Parts DEF Typed, Files
<1>2. Typed'
  BY <1>1, Parts DEF Typed
<1>3. GoneBlank' /\ FileFirst' /\ FreshExact'
  BY <1>1, Parts DEF GoneBlank, FileFirst, FreshExact, Down
<1>4. PendingOrder' /\ PendingLast' /\ PendingSince'
  BY DEF PendingOrder, PendingLast, PendingSince
<1>5. file' # <<>> /\ CheckpointsOf(journal) # {} => file # <<>> /\ \A k \in Keys : Stands(k)
  BY Parts DEF FileFirst, LiveSince, Untouched, Down
<1>6. LiveSince'
  BY <1>5 DEF LiveSince, Stands
<1>7. lost \subseteq lost' /\ (\A k \in Keys : ~Pending(k)) /\ \A k \in Keys : ~(Pending(k))'
  BY <1>1 DEF Pending
<1>8. \A k \in Keys \ lost' : Reconstruct(journal).context[k] = context[k]
  BY <1>7, Parts DEF RewindExact, Lagging, Down
<1>9. RewindExact'
  BY <1>8 DEF RewindExact, Lagging
<1>10. CASE file' = file
  BY <1>7, <1>10, Parts, <1>2, <1>3, <1>4, <1>6, <1>9 DEF FoundSince, ReadersAgree, VInv
<1>11. CASE file' = <<s>>
  <2>1. ASSUME Good(file', journal'), NEW k \in Keys
        PROVE  /\ Found(file', journal')[k] \in Range(since[k])
               /\ k \notin lost' => Found(file', journal')[k] = Reconstruct(journal).context[k]
    <3>1. CheckpointsOf(journal) # {} /\ file # <<>> /\ Good(file, journal) /\ Stands(k)
      BY <1>1, <1>5, <1>11, <2>1 DEF Good
    <3>2. \/ Found(file', journal')[k] = context[k]
          \/ /\ Found(file', journal')[k] = Found(file, journal)[k]
             /\ Found(file', journal')[k] = Reconstruct(journal).context[k]
      BY <1>1, <1>11, <3>1, FoundFile
    <3>3. Found(file, journal)[k] \in Range(since[k]) /\ context[k] \in Range(since[k])
      BY <3>1, Parts, RangeIs DEF FoundSince, Stands
    <3> QED BY <1>8, <3>2, <3>3
  <2>2. FoundSince' /\ ReadersAgree'
    BY <2>1 DEF FoundSince, ReadersAgree
  <2> QED BY <1>2, <1>3, <1>4, <1>6, <1>9, <2>2 DEF VInv
<1> QED BY <1>10, <1>11

LEMMA CheckpointsKeepsValues ==
    ASSUME VInv, IInv, Checkpoints, proc \notin Down, proc' \in Procs \ Down, pending' = pending,
           context' = context, talk' = talk
    PROVE  VInv'
<1> DEFINE s == [context |-> context, talk |-> talk, interrupted |-> StillDead]
<1>1. /\ pending = <<>>
      /\ \/ /\ file' = <<s>> /\ journal' = Append(journal, Checkpoint(s))
            /\ since' = [k \in Keys |-> <<context[k]>>] /\ lost' = {} /\ writes' = writes
         \/ /\ file' = <<s>> \/ file' = file
            /\ journal' = journal /\ since' = since /\ writes' = writes
            /\ lost' = IF rewinding THEN Keys ELSE lost
  BY DEF Checkpoints, Flushed, Writes, Trouble, bounds
<1>2. s \in Saved(writes) /\ s.context = context
  <2>1. StillDead \subseteq Events
    BY DEF IInv, Tracks, StillDead
  <2> HIDE DEF StillDead
  <2> QED BY <2>1, Parts DEF Saved, Typed
<1> HIDE DEF s
<1> QED BY <1>1, <1>2, CheckpointWhole, CheckpointTorn

-----------------------------------------------------------------------------
(* Every step *)

LEMMA ObjectKeepsValues == ASSUME VInv, IInv, Object PROVE VInv'
<1>1. CASE Create
  BY <1>1, CreateKeepsValues
<1>2. CASE Recover
  BY <1>2, RecoverKeepsValues
<1>3. CASE StartEnds
  <2>1. /\ context' = context /\ pending' = pending /\ rewinding' = rewinding /\ file' = file
        /\ since' = since /\ lost' = lost /\ writes' = writes /\ talk' = talk /\ journal' = journal
        /\ proc \notin Down /\ proc' \in Procs \ Down
    BY <1>3 DEF StartEnds, diskVars, bounds, Down, Procs
  <2> QED BY <2>1, Parts, ValuesKept DEF Typed
<1>4. CASE StopBegins \/ Recycle
  <2>1. CutsOff /\ proc = "running" /\ proc' \in Procs \ Down /\ writes' = writes
    BY <1>4 DEF StopBegins, Recycle, Trouble, Procs, Down
  <2> QED BY <2>1, CutsOffKeepsValues
<1>5. CASE StopDrains
  <2>1. /\ context' = context /\ pending' = pending /\ rewinding' = rewinding /\ file' = file
        /\ since' = since /\ lost' = lost /\ writes' = writes /\ talk' = talk /\ journal' = journal
        /\ proc \notin Down /\ proc' \in Procs \ Down
    BY <1>5 DEF StopDrains, diskVars, bounds, Down, Procs
  <2> QED BY <2>1, Parts, ValuesKept DEF Typed
<1>6. CASE StopEnds
  <2>1. /\ Checkpoints /\ proc \notin Down /\ proc' \in Procs \ Down
        /\ pending' = pending /\ context' = context /\ talk' = talk
    BY <1>6 DEF StopEnds, Down, Procs
  <2> QED BY <2>1, CheckpointsKeepsValues
<1>7. CASE Crash
  BY <1>7, CrashKeepsValues
<1>8. CASE HookRuns
  BY <1>8, HookRunsKeepsValues
<1>9. CASE HookFails
  BY <1>9, HookFailsKeepsValues
<1>10. ASSUME NEW k \in Keys, Put(k) PROVE VInv'
  BY <1>10, PutKeepsValues
<1> QED BY <1>1, <1>2, <1>3, <1>4, <1>5, <1>6, <1>7, <1>8, <1>9, <1>10 DEF Object

LEMMA EventKeepsValues == ASSUME VInv, IInv, Event PROVE VInv'
<1>1. PICK e \in Events :
         \/ Fire(e) \/ Begin(e) \/ RunEnds(e) \/ RunFails(e) \/ Completes(e) \/ Redeliver(e)
         \/ CheckpointOf(e, "ending", "after") \/ CheckpointOf(e, "after", "done")
  BY DEF Event, RunCheckpoints, MissionCheckpoints
<1>2. CASE Fire(e) \/ Begin(e) \/ RunEnds(e) \/ RunFails(e) \/ Completes(e) \/ Redeliver(e)
  <2>1. /\ context' = context /\ pending' = pending /\ rewinding' = rewinding /\ file' = file
        /\ since' = since /\ lost' = lost /\ writes' = writes /\ journal' = journal /\ proc' = proc
    BY <1>2 DEF Fire, Begin, RunEnds, RunFails, Completes, Redeliver, Moves, diskVars, bounds, Trouble
  <2>2. talk' = talk \/ talk' = talk \union {e}
    BY <1>2 DEF Fire, Begin, RunEnds, RunFails, Completes, Redeliver, Moves
  <2>3. talk' \in Talks
    BY <2>2, Parts DEF Typed, Talks
  <2> QED BY <2>1, <2>3, ValuesKept
<1>3. CASE CheckpointOf(e, "ending", "after") \/ CheckpointOf(e, "after", "done")
  <2>1. /\ Checkpoints /\ place[e] \in {"ending", "after"}
        /\ pending' = pending /\ context' = context /\ talk' = talk /\ proc' = proc
    BY <1>3 DEF CheckpointOf
  <2>2. proc = "running"
    BY <2>1 DEF IInv, EventTypes, UnderWay, InRun
  <2>3. proc \notin Down /\ proc' \in Procs \ Down
    BY <2>1, <2>2 DEF Down, Procs
  <2> QED BY <2>1, <2>3, CheckpointsKeepsValues
<1> QED BY <1>1, <1>2, <1>3

LEMMA OperatorKeepsValues == ASSUME VInv, IInv, Operator PROVE VInv'
<1>1. CASE Clear
  <2>1. /\ context' = context /\ pending' = pending /\ rewinding' = rewinding /\ file' = file
        /\ since' = since /\ lost' = lost /\ writes' = writes /\ talk' = talk /\ journal' = journal
        /\ proc' = proc
    BY <1>1 DEF Clear, diskVars, Trouble
  <2> QED BY <2>1, Parts, ValuesKept DEF Typed
<1>2. CASE RewindEnds
  <2>1. /\ Checkpoints /\ rewinding /\ pending' = pending /\ context' = context /\ talk' = talk
        /\ proc' = proc
    BY <1>2 DEF RewindEnds
  <2>2. proc \notin Down /\ proc' \in Procs \ Down
    BY <2>1, Parts DEF IInv, EventTypes, Typed
  <2> QED BY <2>1, <2>2, CheckpointsKeepsValues
<1>3. ASSUME NEW t \in DOMAIN journal, NEW mode \in Modes, Rewind(t, mode) PROVE VInv'
  BY <1>3, RewindKeepsValues
<1> QED BY <1>1, <1>2, <1>3 DEF Operator

LEMMA ValuesInit == Init => VInv
<1> SUFFICES ASSUME Init PROVE VInv
  OBVIOUS
<1>1. /\ proc = "gone" /\ context = Blank /\ talk = {} /\ pending = <<>> /\ rewinding = FALSE
      /\ journal = <<>> /\ file = <<>> /\ lost = {} /\ since = [k \in Keys |-> <<0>>] /\ writes = 0
  BY DEF Init
<1>2. Typed
  <2>1. Blank \in [Keys -> 0 .. 0] /\ {} \in Talks /\ <<>> \in Files(0)
    BY DEF Blank, Talks, Files
  <2>2. since \in [Keys -> Seq(0 .. 0)]
    BY <1>1
  <2> QED BY <1>1, <2>1, <2>2, EmptySeq, BoundsAssumption DEF Typed, Procs
<1>3. CheckpointsOf(journal) = {}
  BY <1>1 DEF CheckpointsOf
<1>4. Found(file, journal) = Blank /\ Reconstruct(journal) = Empty
  BY <1>1, ReadersEmpty DEF Found, Base0
<1>5. \A k \in Keys : 1 \in DOMAIN since[k] /\ since[k][1] = 0
  BY <1>1
<1>6. GoneBlank /\ FileFirst /\ PendingOrder /\ PendingLast /\ PendingSince /\ LiveSince
  BY <1>1, <1>3 DEF GoneBlank, FileFirst, PendingOrder, PendingLast, PendingSince, LiveSince
<1>7. FoundSince
  BY <1>4, <1>5, RangeIs DEF FoundSince, Blank
<1>8. ReadersAgree /\ FreshExact /\ RewindExact
  BY <1>1, <1>4 DEF ReadersAgree, FreshExact, RewindExact, Empty
<1> QED BY <1>2, <1>6, <1>7, <1>8 DEF VInv

\* The values are as the invariant says in every state.
THEOREM ValuesInductive == Spec => []VInv
<1>1. VInv /\ IInv /\ [Next]_vars => VInv'
  <2> SUFFICES ASSUME VInv, IInv, [Next]_vars PROVE VInv'
    OBVIOUS
  <2>1. CASE Next
    BY <2>1, ObjectKeepsValues, EventKeepsValues, OperatorKeepsValues DEF Next
  <2>2. CASE UNCHANGED vars
    <3>1. /\ context' = context /\ pending' = pending /\ rewinding' = rewinding /\ file' = file
          /\ since' = since /\ lost' = lost /\ writes' = writes /\ talk' = talk
          /\ journal' = journal /\ proc' = proc
      BY <2>2 DEF vars
    <3> QED BY <3>1, Parts, ValuesKept DEF Typed
  <2> QED BY <2>1, <2>2
<1> QED BY <1>1, ValuesInit, Inductive, PTL DEF Spec

-----------------------------------------------------------------------------
(* The properties *)

\* Every variable has its type, values are numbers of writes, the file holds
\* at most one checkpoint, and only a process that runs has runs.
THEOREM TypeCorrect == Spec => []TypeOK
<1>1. VInv /\ IInv => TypeOK
  <2> SUFFICES ASSUME VInv, IInv PROVE TypeOK
    OBVIOUS
  <2>1. /\ proc \in Procs /\ writes \in Nat /\ writes <= MaxWrites
        /\ context \in [Keys -> 0 .. writes] /\ talk \in Talks /\ lost \subseteq Keys
        /\ pending \in Seq(Write(writes)) /\ file \in Files(writes)
    BY Parts DEF Typed
  <2>2. /\ place \in [Events -> Places] /\ (UnderWay # {} => proc = "running")
        /\ rewinding \in BOOLEAN /\ interrupted \subseteq Events /\ settled \subseteq Events
        /\ kept \subseteq Events
    BY DEF IInv, EventTypes, Tracks, SettledOver, KeptInFile
  <2>3. context \in [Keys -> 0 .. MaxWrites]
    BY <2>1, BoundsAssumption
  <2>4. \A i \in DOMAIN pending : pending[i] \in [key : Keys, value : 1 .. writes]
    BY <2>1, ElementOfSeq, LenProperties DEF Write
  <2>5. Len(file) <= 1
    <3>1. file = <<>> \/ \E s \in Saved(writes) : file = <<s>>
      BY <2>1 DEF Files
    <3>2. Len(<<>>) <= 1 /\ \A s : Len(<<s>>) <= 1
      OBVIOUS
    <3> QED BY <3>1, <3>2
  <2> QED BY <2>1, <2>2, <2>3, <2>4, <2>5 DEF TypeOK, Talks
<1> QED BY <1>1, Inductive, ValuesInductive, PTL

\* A crash takes no key back behind its last journaled value, nor to a value
\* it did not have since: through lost entries, checkpoints without their
\* entry, stops that take hooks along, rewinds and other crashes.
THEOREM CrashKeepsTheValues == Spec => []Recoverable
<1>1. VInv => Recoverable
  BY Parts, SinceIs
<1> QED BY <1>1, ValuesInductive, PTL

\* A rewind to the end of the journal gives every key whose writes have all
\* been journaled the value that it has.
THEOREM RewindIsExact == Spec => []RewindExact
<1>1. VInv => RewindExact
  BY Parts
<1> QED BY <1>1, ValuesInductive, PTL

\* Recovery and a rewind read the same context and conversation from a
\* journal whose last checkpoint is the one in the file, whatever is in it.
THEOREM ReadersAlwaysAgree == Spec => []EnginesAgree
<1>1. VInv => EnginesAgree
  <2> SUFFICES ASSUME VInv PROVE EnginesAgree
    OBVIOUS
  <2>1. writes \in Nat /\ journal \in Seq(Entries(writes))
    BY Parts DEF Typed
  <2>2. Reconstruct(journal) =
            IF CheckpointsOf(journal) = {} THEN [context |-> Replay(Blank, journal), talk |-> {}]
            ELSE [context |-> Replay(Base(journal).state.context, After(journal)),
                  talk |-> Base(journal).state.talk]
    BY <2>1, CheckpointSplit
  <2>3. CASE HasFile
    <3> SUFFICES ASSUME CheckpointsOf(journal) # {}, journal[LastCheckpoint].state = Snapshot
                 PROVE  Recovered = Reconstruct(journal).context /\ Snapshot.talk = Reconstruct(journal).talk
      BY <2>3 DEF EnginesAgree
    <3>1. Base(journal).state = Snapshot
      BY DEF Base, Latest, LastCheckpoint
    <3>2. Recovered = Replay(Snapshot.context, After(journal))
      BY <2>3, RecoveredIs DEF Found, Base0, HasFile, Snapshot
    <3>3. Reconstruct(journal) = [context |-> Replay(Snapshot.context, After(journal)), talk |-> Snapshot.talk]
      BY <2>2, <3>1
    <3> QED BY <3>2, <3>3
  <2>4. CASE ~HasFile
    <3> SUFFICES ASSUME CheckpointsOf(journal) = {} PROVE Recovered = Reconstruct(journal).context
      BY <2>4 DEF EnginesAgree
    <3>1. Recovered = Replay(Blank, journal)
      BY <2>4, RecoveredIs DEF Found, Base0, HasFile
    <3> QED BY <2>2, <3>1
  <2> QED BY <2>3, <2>4
<1> QED BY <1>1, ValuesInductive, PTL

=============================================================================
