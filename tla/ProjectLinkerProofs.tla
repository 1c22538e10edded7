-------------------------- MODULE ProjectLinkerProofs --------------------------
(***************************************************************************)
(* Theorems about ProjectLinker.  The argument is FollowedAreLinked: the   *)
(* imports that a source on the path has followed are linked, but for the  *)
(* one through which the next source on the path was entered.  When a      *)
(* source is left all of its imports are therefore in front of it.         *)
(***************************************************************************)
EXTENDS ProjectLinker, SequenceTheorems, TLAPS

USE LimitsArePositive, ProjectsGiven
USE DEF indexVars, graphVars, Top, Fail

\* What a name resolves to, and what a source imports, only depend on project and index.
LEMMA ResolvedIsPath == \A n : Resolves(n) => Resolved(n) \in Paths
BY DEF Resolves, Resolved

LEMMA ResolutionIsStable ==
  ASSUME UNCHANGED <<project, sourceIndex>>
  PROVE  /\ \A n : Resolves(n)' = Resolves(n) /\ Resolved(n)' = Resolved(n)
         /\ \A p : Imports(p)' = Imports(p) /\ Declares(p)' = Declares(p)
         /\ \A p, q : Needs(p, q)' = Needs(p, q)
BY DEF Resolves, Resolved, Matches, Imports, Declares, Needs

LEMMA ImportsAreNames ==
  ASSUME TypeOK, NEW p \in Paths
  PROVE  Imports(p) \in Seq(Names) /\ Len(Imports(p)) \in Nat /\ Declares(p) \in Seq(DeclarationKinds)
BY DEF TypeOK, ProjectShape, Units, Imports, Declares

\* The newest frame.
LEMMA TopIsFrame ==
  ASSUME TypeOK, activePath # <<>>
  PROVE  /\ Len(activePath) \in Nat \ {0} /\ Len(activePath) \in 1..Len(activePath)
         /\ Top \in Frames /\ Top.path \in Paths /\ Top.at \in Nat
<1>1. Len(activePath) \in 1..Len(activePath) /\ Len(activePath) \in Nat \ {0} BY DEF TypeOK
<1>2. activePath[Len(activePath)] \in Frames BY <1>1 DEF TypeOK
<1> QED BY <1>1, <1>2 DEF Frames

\* The path without its newest frame, with a new one, and with the newest one advanced.
LEMMA PoppedPath ==
  ASSUME TypeOK, activePath # <<>>
  PROVE  /\ Popped \in Seq(Frames) /\ Len(Popped) = Len(activePath) - 1
         /\ \A i \in 1..(Len(activePath) - 1) : Popped[i] = activePath[i]
<1> DEFINE n == Len(activePath)
<1>1. n \in Nat \ {0} BY TopIsFrame
<1>2. ASSUME NEW i \in 1..(n - 1) PROVE activePath[i] \in Frames
  <2>1. i \in 1..n BY <1>1
  <2> QED BY <2>1 DEF TypeOK
<1> HIDE DEF n
<1>3. /\ SubSeq(activePath, 1, n - 1) \in Seq(Frames)
      /\ Len(SubSeq(activePath, 1, n - 1)) = IF 1 <= n - 1 THEN n - 1 - 1 + 1 ELSE 0
      /\ \A i \in 1..(n - 1 - 1 + 1) : SubSeq(activePath, 1, n - 1)[i] = activePath[1 + i - 1]
  BY <1>1, <1>2, SubSeqProperties
<1>4. n - 1 - 1 + 1 = n - 1 /\ (IF 1 <= n - 1 THEN n - 1 - 1 + 1 ELSE 0) = n - 1 BY <1>1
<1>5. \A i \in 1..(n - 1) : 1 + i - 1 = i BY <1>1
<1>6. \A i \in 1..(n - 1) : SubSeq(activePath, 1, n - 1)[i] = activePath[i] BY <1>3, <1>4, <1>5
<1> QED BY <1>3, <1>4, <1>6 DEF Popped, n

LEMMA AdvancedPath ==
  ASSUME TypeOK, activePath # <<>>
  PROVE  /\ Advanced \in Seq(Frames) /\ Len(Advanced) = Len(activePath)
         /\ \A i \in 1..Len(activePath) : i # Len(activePath) => Advanced[i] = activePath[i]
         /\ Advanced[Len(activePath)].path = Top.path
         /\ Advanced[Len(activePath)].at = Top.at + 1
         /\ \A i \in 1..Len(activePath) : Advanced[i].path = activePath[i].path
<1> DEFINE n == Len(activePath)
<1>1. n \in Nat \ {0} /\ n \in 1..n /\ Top \in Frames BY TopIsFrame
<1> DEFINE f == [activePath[n] EXCEPT !.at = @ + 1]
<1>3. f \in Frames /\ f.path = Top.path /\ f.at = Top.at + 1 BY <1>1 DEF Frames
<1> HIDE DEF f
<1>4. Advanced = [activePath EXCEPT ![n] = f] BY DEF Advanced, f
<1>5. /\ Advanced \in Seq(Frames) /\ Len(Advanced) = n
      /\ \A i \in 1..n : Advanced[i] = IF i = n THEN f ELSE activePath[i]
  BY <1>1, <1>3, <1>4, ExceptSeq DEF TypeOK
<1>6. Advanced[n] = f BY <1>1, <1>5
<1>7. \A i \in 1..n : i # n => Advanced[i] = activePath[i] BY <1>5
<1>8. \A i \in 1..n : Advanced[i].path = activePath[i].path BY <1>3, <1>6, <1>7
<1> QED BY <1>3, <1>5, <1>6, <1>7, <1>8

LEMMA AppendedPath ==
  ASSUME NEW s \in Seq(Frames), NEW f \in Frames
  PROVE  /\ Append(s, f) \in Seq(Frames) /\ Len(Append(s, f)) = Len(s) + 1
         /\ \A i \in 1..Len(s) : Append(s, f)[i] = s[i]
         /\ Append(s, f)[Len(s) + 1] = f
OBVIOUS

(***************************************************************************)
(* Preservation.                                                           *)
(***************************************************************************)
LEMMA InitEstablishes == Init => IInv
<1> SUFFICES ASSUME Init PROVE IInv OBVIOUS
<1> USE DEF Init, Unstarted
<1>1. TypeOK BY DEF TypeOK, Reasons
<1>2. PathAgrees BY DEF PathAgrees
<1>3. FollowedAreLinked /\ LinkedAreClosed BY DEF FollowedAreLinked, LinkedAreClosed
<1>4. DeclarationsAreLinked /\ ImportsComeFirst /\ LinkedOnce
  BY DEF DeclarationsAreLinked, ImportsComeFirst, LinkedOnce
<1>5. StagesAgree BY DEF StagesAgree
<1> QED BY <1>1, <1>2, <1>3, <1>4, <1>5 DEF IInv

\* Declarations come from linked sources only.
LEMMA NothingLinked ==
  ASSUME TypeOK, DeclarationsAreLinked, \A p \in Paths : visitStates[p] = "New"
  PROVE  linkedDeclarations = <<>>
<1>1. linkedDeclarations \in Seq(Linked) BY DEF TypeOK
<1>2. SUFFICES ASSUME linkedDeclarations # <<>> PROVE FALSE OBVIOUS
<1>3. 1 \in 1..Len(linkedDeclarations) /\ linkedDeclarations[1] \in Linked BY <1>1, <1>2
<1>4. linkedDeclarations[1].path \in Paths BY <1>3 DEF Linked
<1> QED BY <1>3, <1>4 DEF DeclarationsAreLinked

\* While nothing is linked and nothing on the path, only the types matter.
LEMMA EmptyGraph ==
  ASSUME TypeOK', activePath' = <<>>, linkedDeclarations' = <<>>,
         \A p \in Paths : visitStates'[p] = "New"
  PROVE  /\ PathAgrees' /\ FollowedAreLinked' /\ LinkedAreClosed' /\ DeclarationsAreLinked'
         /\ ImportsComeFirst' /\ LinkedOnce'
BY DEF PathAgrees, FollowedAreLinked, LinkedAreClosed, DeclarationsAreLinked, ImportsComeFirst,
       LinkedOnce

\* The path of the entry alone.
LEMMA EntryAlone ==
  ASSUME TypeOK, project' = project, linkedDeclarations = <<>>, activePath = <<>>,
         \A p \in Paths : visitStates[p] = "New", Push(project.entry)
  PROVE  /\ activePath' = <<[path |-> project.entry, at |-> 0]>> /\ activePath' \in Seq(Frames)
         /\ visitStates' \in [Paths -> {"New", "Visiting", "Visited"}]
         /\ PathAgrees' /\ FollowedAreLinked' /\ LinkedAreClosed' /\ DeclarationsAreLinked'
         /\ ImportsComeFirst' /\ LinkedOnce'
<1> DEFINE f == [path |-> project.entry, at |-> 0]
<1>1. project.entry \in Paths /\ f \in Frames BY DEF TypeOK, ProjectShape, Frames
<1>2. activePath' = <<f>> BY DEF Push
<1>3. /\ visitStates'[project.entry] = "Visiting"
      /\ \A p \in Paths : p # project.entry => visitStates'[p] = "New"
      /\ visitStates' \in [Paths -> {"New", "Visiting", "Visited"}]
  BY <1>1 DEF TypeOK, Push
<1>4. /\ Len(activePath') = 1 /\ activePath'[1] = f /\ activePath'[1].path = project.entry
      /\ activePath'[1].at = 0 /\ activePath' \in Seq(Frames)
  BY <1>1, <1>2
<1>5. Imports(project.entry)' \in Seq(Names)
  BY <1>1, ImportsAreNames DEF Imports
<1>6. PathAgrees' BY <1>3, <1>4, <1>5 DEF PathAgrees
<1>7. FollowedAreLinked' BY <1>4 DEF FollowedAreLinked, Followed
<1>8. LinkedAreClosed' BY <1>3 DEF LinkedAreClosed
<1>9. DeclarationsAreLinked' /\ ImportsComeFirst' /\ LinkedOnce'
  BY DEF DeclarationsAreLinked, ImportsComeFirst, LinkedOnce, Push
<1> QED BY <1>2, <1>3, <1>4, <1>6, <1>7, <1>8, <1>9

LEMMA StartKeeps == IInv /\ Start => IInv'
<1> SUFFICES ASSUME IInv, Start PROVE IInv' OBVIOUS
<1> USE DEF Start
<1>0. TypeOK /\ activePath = <<>> /\ \A p \in Paths : visitStates[p] = "New"
  BY DEF IInv, StagesAgree
<1>1. linkedDeclarations = <<>> BY <1>0, NothingLinked DEF IInv
<1>2. CASE stage' # "visit" /\ UNCHANGED graphVars
  <2>1. TypeOK' BY <1>0, <1>2 DEF TypeOK, Reasons
  <2>2. StagesAgree' BY <1>0, <1>2 DEF StagesAgree, IInv
  <2> QED BY <1>0, <1>1, <1>2, <2>1, <2>2, EmptyGraph DEF IInv
<1>3. CASE stage' = "visit" /\ Push(project.entry) /\ UNCHANGED reason
  <2>1. TypeOK' BY <1>0, <1>1, <1>3, EntryAlone DEF TypeOK, Push
  <2>2. StagesAgree' BY <1>0, <1>1, <1>3, EntryAlone DEF StagesAgree, IInv
  <2> QED BY <1>0, <1>1, <1>3, <2>1, <2>2, EntryAlone DEF IInv
<1> QED BY <1>2, <1>3

LEMMA IndexSourceKeeps == ASSUME IInv, NEW p \in Paths, IndexSource(p) PROVE IInv'
<1> USE DEF IndexSource
<1>0. TypeOK /\ activePath = <<>> /\ \A q \in Paths : visitStates[q] = "New"
  BY DEF IInv, StagesAgree
<1>1. linkedDeclarations = <<>> BY <1>0, NothingLinked DEF IInv
<1>2. project.size[p] \in Nat BY <1>0 DEF TypeOK, ProjectShape
<1>3. TypeOK' BY <1>0, <1>2 DEF TypeOK, Reasons
<1>4. StagesAgree' BY <1>0 DEF StagesAgree, IInv
<1> QED BY <1>0, <1>1, <1>3, <1>4, EmptyGraph DEF IInv

LEMMA IndexCompletedKeeps == IInv /\ IndexCompleted => IInv'
<1> SUFFICES ASSUME IInv, IndexCompleted PROVE IInv' OBVIOUS
<1> USE DEF IndexCompleted
<1>0. TypeOK /\ activePath = <<>> /\ \A p \in Paths : visitStates[p] = "New"
  BY DEF IInv, StagesAgree
<1>1. linkedDeclarations = <<>> BY <1>0, NothingLinked DEF IInv
<1>2. TypeOK' BY <1>0, <1>1, EntryAlone DEF TypeOK, Push
<1>3. StagesAgree' BY <1>0, <1>1, EntryAlone DEF StagesAgree, IInv
<1> QED BY <1>0, <1>1, <1>2, <1>3, EntryAlone DEF IInv

\* A failure leaves the graph as it is; a circular import is one of the newest source.
LEMMA FailureKeeps ==
  ASSUME IInv, stage = "visit", NEW why \in Reasons, Fail(why),
         UNCHANGED <<project, indexVars, graphVars>>,
         why = "circular" => ImportCircular
  PROVE  IInv'
<1>1. TypeOK' BY DEF IInv, TypeOK
<1>2. PathAgrees' BY ResolutionIsStable DEF IInv, PathAgrees
<1>3. FollowedAreLinked' /\ LinkedAreClosed'
  BY ResolutionIsStable DEF IInv, FollowedAreLinked, LinkedAreClosed, Followed
<1>4. DeclarationsAreLinked' /\ ImportsComeFirst' /\ LinkedOnce'
  BY ResolutionIsStable DEF IInv, DeclarationsAreLinked, ImportsComeFirst, LinkedOnce
<1>5. StagesAgree'
  <2>1. why = "circular" =>
          /\ Len(activePath) > 0 /\ Top.at < Len(Imports(Top.path))
          /\ Resolves(Wanted) /\ visitStates[Resolved(Wanted)] = "Visiting"
    BY TopIsFrame DEF ImportCircular, Following, IInv
  <2>2. Wanted' = Wanted BY ResolutionIsStable DEF Wanted
  <2> QED BY <2>1, <2>2, ResolutionIsStable DEF StagesAgree, IInv
<1> QED BY <1>1, <1>2, <1>3, <1>4, <1>5 DEF IInv

\* An import that is linked already is passed over.
LEMMA ImportReusedKeeps == IInv /\ ImportReused => IInv'
<1> SUFFICES ASSUME IInv, ImportReused PROVE IInv' OBVIOUS
<1> DEFINE n == Len(activePath)
<1>1. /\ n \in Nat \ {0} /\ n \in 1..n /\ Top \in Frames /\ Top.path \in Paths /\ Top.at \in Nat
      /\ activePath # <<>> /\ TypeOK /\ Top.at < Len(Imports(Top.path))
  BY TopIsFrame DEF IInv, ImportReused, Following
<1>2. /\ activePath' \in Seq(Frames) /\ Len(activePath') = n
      /\ \A i \in 1..n : i # n => activePath'[i] = activePath[i]
      /\ activePath'[n].path = Top.path /\ activePath'[n].at = Top.at + 1
      /\ \A i \in 1..n : activePath'[i].path = activePath[i].path
  BY <1>1, AdvancedPath DEF ImportReused
<1>3. /\ UNCHANGED <<project, stage, reason, indexVars, visitStates, linkedDeclarations,
                     linkedModuleCount>>
      /\ Resolves(Wanted) /\ visitStates[Resolved(Wanted)] = "Visited" /\ stage = "visit"
  BY DEF ImportReused, Following
<1> HIDE DEF n
<1>4. /\ \A p : Imports(p)' = Imports(p)
      /\ \A p, k : Followed(p, k)' = Followed(p, k)
      /\ \A m : Resolves(m)' = Resolves(m) /\ Resolved(m)' = Resolved(m)
  BY <1>3, ResolutionIsStable DEF Followed
<1>5. TypeOK' BY <1>1, <1>2, <1>3 DEF TypeOK
<1>6. PathAgrees'
  <2>1. ASSUME NEW i \in 1..n
        PROVE  /\ visitStates'[activePath'[i].path] = "Visiting"
               /\ activePath'[i].at <= Len(Imports(activePath'[i].path))
    <3>1. CASE i = n BY <1>1, <1>2, <1>3, <3>1, ImportsAreNames DEF IInv, PathAgrees, n
    <3>2. CASE i # n BY <1>2, <1>3, <3>2 DEF IInv, PathAgrees, n
    <3> QED BY <3>1, <3>2
  <2>2. \A i, j \in 1..n : activePath'[i].path = activePath'[j].path => i = j
    BY <1>2 DEF IInv, PathAgrees, n
  <2>3. \A p \in Paths : visitStates'[p] = "Visiting" => \E i \in 1..n : activePath'[i].path = p
    BY <1>2, <1>3 DEF IInv, PathAgrees, n
  <2>4. ASSUME NEW i \in 1..n, i < n
        PROVE  /\ activePath'[i].at > 0
               /\ Resolves(Imports(activePath'[i].path)[activePath'[i].at])
               /\ Resolved(Imports(activePath'[i].path)[activePath'[i].at]) = activePath'[i + 1].path
    <3>1. i + 1 \in 1..n /\ i # n BY <1>1, <2>4
    <3> QED BY <1>2, <2>4, <3>1 DEF IInv, PathAgrees, n
  <2> QED BY <1>2, <1>4, <2>1, <2>2, <2>3, <2>4 DEF PathAgrees
<1>7. FollowedAreLinked'
  <2>1. ASSUME NEW i \in 1..n, i < n PROVE Followed(activePath'[i].path, activePath'[i].at - 1)
    <3>1. i # n BY <1>1, <2>1
    <3> QED BY <1>2, <2>1, <3>1 DEF IInv, FollowedAreLinked, n
  <2>2. Followed(Top.path, Top.at + 1)
    <3>1. Followed(Top.path, Top.at) BY <1>1 DEF IInv, FollowedAreLinked
    <3>2. \A k \in 1..(Top.at + 1) : k \in 1..Top.at \/ k = Top.at + 1 BY <1>1
    <3> QED BY <1>3, <3>1, <3>2 DEF Followed, Wanted
  <2>3. Top' = activePath'[n] BY <1>2
  <2> QED BY <1>2, <1>4, <2>1, <2>2, <2>3 DEF FollowedAreLinked
<1>8. LinkedAreClosed' BY <1>3, <1>4 DEF IInv, LinkedAreClosed
<1>9. DeclarationsAreLinked' /\ ImportsComeFirst' /\ LinkedOnce'
  BY <1>3, ResolutionIsStable DEF IInv, DeclarationsAreLinked, ImportsComeFirst, LinkedOnce
<1>10. StagesAgree'
  <2>1. activePath' # <<>> /\ activePath'[1].path = activePath[1].path BY <1>1, <1>2
  <2> QED BY <1>1, <1>3, <2>1 DEF IInv, StagesAgree
<1> QED BY <1>5, <1>6, <1>7, <1>8, <1>9, <1>10 DEF IInv

\* The visit of a source that nobody has visited.
LEMMA EnterKeeps ==
  ASSUME IInv, ImportVisited, visitStates' # visitStates \/ stage' = stage
  PROVE  IInv'
<1> DEFINE n == Len(activePath)
<1> DEFINE p == Resolved(Wanted)
<1> DEFINE f == [path |-> p, at |-> 0]
<1>1. /\ n \in Nat \ {0} /\ n \in 1..n /\ Top \in Frames /\ Top.path \in Paths /\ Top.at \in Nat
      /\ activePath # <<>> /\ TypeOK /\ Top.at < Len(Imports(Top.path))
      /\ Resolves(Wanted) /\ visitStates[p] = "New" /\ p \in Paths /\ stage = "visit"
  BY TopIsFrame, ResolvedIsPath DEF IInv, ImportVisited, Following
<1>2. /\ visitStates' = [visitStates EXCEPT ![p] = "Visiting"] /\ activePath' = Append(Advanced, f)
      /\ UNCHANGED <<project, indexVars, stage, reason, linkedDeclarations, linkedModuleCount>>
  BY <1>1 DEF ImportVisited
<1>3. f \in Frames /\ f.path = p /\ f.at = 0 BY <1>1 DEF Frames
<1> HIDE DEF n, p, f
<1>4. /\ activePath' \in Seq(Frames) /\ Len(activePath') = n + 1 /\ activePath'[n + 1] = f
      /\ \A i \in 1..n : i # n => activePath'[i] = activePath[i]
      /\ activePath'[n].path = Top.path /\ activePath'[n].at = Top.at + 1
      /\ \A i \in 1..n : activePath'[i].path = activePath[i].path
  BY <1>1, <1>2, <1>3, AdvancedPath, AppendedPath DEF n
<1>5. /\ visitStates'[p] = "Visiting" /\ \A q \in Paths : q # p => visitStates'[q] = visitStates[q]
      /\ visitStates' \in [Paths -> {"New", "Visiting", "Visited"}]
  BY <1>1, <1>2 DEF TypeOK
<1>6. /\ \A q : Imports(q)' = Imports(q)
      /\ \A m : Resolves(m)' = Resolves(m) /\ Resolved(m)' = Resolved(m)
      /\ \A q, r : Needs(q, r)' = Needs(q, r)
  BY <1>2, ResolutionIsStable
<1>7. \A q, k : Followed(q, k) => Followed(q, k)'
  BY <1>1, <1>5, <1>6, ResolvedIsPath DEF Followed
<1>8. ASSUME NEW i \in 1..n
      PROVE  /\ activePath[i].path # p /\ activePath[i].path \in Paths
             /\ visitStates[activePath[i].path] = "Visiting"
  <2>1. activePath[i] \in Frames BY <1>1 DEF TypeOK, n
  <2>2. visitStates[activePath[i].path] = "Visiting" BY DEF IInv, PathAgrees, n
  <2> QED BY <1>1, <2>1, <2>2 DEF Frames
<1>9. TypeOK' BY <1>1, <1>2, <1>4, <1>5 DEF TypeOK
<1>10. PathAgrees'
  <2>1. ASSUME NEW i \in 1..(n + 1)
        PROVE  /\ visitStates'[activePath'[i].path] = "Visiting"
               /\ activePath'[i].at <= Len(Imports(activePath'[i].path))
    <3>1. CASE i = n + 1 BY <1>1, <1>3, <1>4, <1>5, <3>1, ImportsAreNames
    <3>2. CASE i = n
      <4>1. Top.path # p /\ visitStates[Top.path] = "Visiting" BY <1>1, <1>8 DEF n
      <4> QED BY <1>1, <1>4, <1>5, <3>2, <4>1, ImportsAreNames
    <3>3. CASE i # n /\ i # n + 1
      <4>1. i \in 1..n BY <1>1, <3>3
      <4> QED BY SMTT(30), <1>4, <1>5, <1>8, <3>3, <4>1 DEF IInv, PathAgrees, n
    <3> QED BY <3>1, <3>2, <3>3
  <2>2. ASSUME NEW i \in 1..(n + 1), NEW j \in 1..(n + 1), activePath'[i].path = activePath'[j].path
        PROVE  i = j
    <3>1. (i = n + 1 \/ i \in 1..n) /\ (j = n + 1 \/ j \in 1..n) BY <1>1
    <3> QED BY <1>3, <1>4, <1>8, <2>2, <3>1 DEF IInv, PathAgrees, n
  <2>3. ASSUME NEW q \in Paths, visitStates'[q] = "Visiting"
        PROVE  \E i \in 1..(n + 1) : activePath'[i].path = q
    <3>1. CASE q = p
      <4>1. n + 1 \in 1..(n + 1) BY <1>1
      <4> QED BY <1>3, <1>4, <3>1, <4>1
    <3>2. CASE q # p
      <4>1. PICK i \in 1..n : activePath[i].path = q
        BY <1>5, <2>3, <3>2 DEF IInv, PathAgrees, n
      <4>2. i \in 1..(n + 1) BY <1>1
      <4> QED BY <1>4, <4>1, <4>2
    <3> QED BY <3>1, <3>2
  <2>4. ASSUME NEW i \in 1..(n + 1), i < n + 1
        PROVE  /\ activePath'[i].at > 0
               /\ Resolves(Imports(activePath'[i].path)[activePath'[i].at])
               /\ Resolved(Imports(activePath'[i].path)[activePath'[i].at]) = activePath'[i + 1].path
    <3>1. CASE i = n BY <1>1, <1>3, <1>4, <3>1 DEF p, Wanted
    <3>2. CASE i # n
      <4>1. i \in 1..n /\ i < n /\ i + 1 \in 1..n BY <1>1, <2>4, <3>2
      <4> QED BY <1>4, <3>2, <4>1 DEF IInv, PathAgrees, n
    <3> QED BY <3>1, <3>2
  <2> QED BY <1>4, <1>6, <2>1, <2>2, <2>3, <2>4 DEF PathAgrees
<1>11. FollowedAreLinked'
  <2>1. ASSUME NEW i \in 1..(n + 1), i < n + 1
        PROVE  Followed(activePath'[i].path, activePath'[i].at - 1)
    <3>1. CASE i = n
      <4>1. Top.at + 1 - 1 = Top.at BY <1>1
      <4> QED BY <1>1, <1>4, <3>1, <4>1 DEF IInv, FollowedAreLinked
    <3>2. CASE i # n
      <4>1. i \in 1..n /\ i < n BY <1>1, <2>1, <3>2
      <4> QED BY <1>4, <3>2, <4>1 DEF IInv, FollowedAreLinked, n
    <3> QED BY <3>1, <3>2
  <2>2. Top' = f BY <1>4
  <2>3. \A q, k : k = 0 => Followed(q, k)' BY DEF Followed
  <2>4. Top.at' = 0 BY <1>3, <2>2
  <2> QED BY <1>4, <1>7, <2>1, <2>3, <2>4 DEF FollowedAreLinked
<1>12. LinkedAreClosed' BY <1>5, <1>6, <1>7 DEF IInv, LinkedAreClosed
<1>13. DeclarationsAreLinked' /\ ImportsComeFirst' /\ LinkedOnce'
  <2>1. ASSUME NEW i \in 1..Len(linkedDeclarations) PROVE linkedDeclarations[i].path \in Paths
    <3>1. linkedDeclarations[i] \in Linked BY <1>1 DEF TypeOK
    <3> QED BY <3>1 DEF Linked
  <2> QED BY <1>1, <1>2, <1>5, <1>6, <2>1
      DEF IInv, DeclarationsAreLinked, ImportsComeFirst, LinkedOnce
<1>14. StagesAgree'
  <2>1. activePath' # <<>> /\ activePath'[1].path = activePath[1].path BY <1>1, <1>4
  <2> QED BY <1>1, <1>2, <2>1 DEF IInv, StagesAgree
<1> QED BY <1>9, <1>10, <1>11, <1>12, <1>13, <1>14 DEF IInv

\* A source is left: its declarations follow those of its imports.
LEMMA LeaveKeeps ==
  ASSUME IInv, ModuleLinked, ~Forbidden(Top.path)
  PROVE  IInv'
<1> DEFINE n == Len(activePath)
<1> DEFINE p == Top.path
<1> DEFINE d == Declares(p)
<1> DEFINE new == [i \in 1..Len(d) |-> [path |-> p, at |-> i]]
<1> DEFINE m == Len(linkedDeclarations)
<1>1. /\ n \in Nat \ {0} /\ n \in 1..n /\ Top \in Frames /\ p \in Paths /\ TypeOK
      /\ activePath # <<>> /\ Top.at = Len(Imports(p)) /\ stage = "visit"
      /\ d \in Seq(DeclarationKinds) /\ Top = activePath[n]
  BY TopIsFrame, ImportsAreNames DEF IInv, ModuleLinked
<1>2. /\ linkedDeclarations' = linkedDeclarations \o new
      /\ visitStates' = [visitStates EXCEPT ![p] = "Visited"]
      /\ activePath' = Popped /\ linkedModuleCount' = linkedModuleCount + 1
      /\ stage' = IF n = 1 THEN "linked" ELSE "visit"
      /\ UNCHANGED <<project, indexVars, reason>>
  BY DEF ModuleLinked, Collected
<1>3. /\ new \in Seq(Linked) /\ Len(new) = Len(d) /\ Len(d) \in Nat
      /\ \A i \in 1..Len(d) : new[i].path = p /\ new[i].at = i
  BY <1>1 DEF Linked
<1>4. linkedDeclarations \in Seq(Linked) /\ m \in Nat BY <1>1 DEF TypeOK
<1> HIDE DEF new, d, m, n, p
<1>5. /\ linkedDeclarations' \in Seq(Linked) /\ Len(linkedDeclarations') = m + Len(d)
      /\ \A i \in 1..(m + Len(d)) :
           linkedDeclarations'[i] = IF i <= m THEN linkedDeclarations[i] ELSE new[i - m]
  <2>1. \A i \in 1..(Len(linkedDeclarations) + Len(new)) :
          (linkedDeclarations \o new)[i] =
            IF i <= Len(linkedDeclarations) THEN linkedDeclarations[i]
            ELSE new[i - Len(linkedDeclarations)]
    BY <1>3, <1>4, ConcatProperties
  <2>2. /\ linkedDeclarations \o new \in Seq(Linked)
        /\ Len(linkedDeclarations \o new) = Len(linkedDeclarations) + Len(new)
    BY <1>3, <1>4, ConcatProperties
  <2> QED BY <1>2, <1>3, <2>1, <2>2 DEF m
<1>6. /\ visitStates'[p] = "Visited" /\ \A q \in Paths : q # p => visitStates'[q] = visitStates[q]
      /\ visitStates' \in [Paths -> {"New", "Visiting", "Visited"}]
  BY <1>1, <1>2 DEF TypeOK
<1>7. /\ activePath' \in Seq(Frames) /\ Len(activePath') = n - 1
      /\ \A i \in 1..(n - 1) : activePath'[i] = activePath[i]
  BY <1>1, <1>2, PoppedPath DEF n
<1>8. /\ \A q : Imports(q)' = Imports(q)
      /\ \A l : Resolves(l)' = Resolves(l) /\ Resolved(l)' = Resolved(l)
      /\ \A q, r : Needs(q, r)' = Needs(q, r)
  BY <1>2, ResolutionIsStable
<1>9. \A q, k : Followed(q, k) => Followed(q, k)'
  BY <1>1, <1>6, <1>8, ResolvedIsPath DEF Followed
<1>10. ASSUME NEW i \in 1..n
       PROVE  /\ activePath[i].path \in Paths /\ visitStates[activePath[i].path] = "Visiting"
              /\ i # n => activePath[i].path # p
  <2>1. activePath[i] \in Frames BY <1>1 DEF TypeOK, n
  <2>2. visitStates[activePath[i].path] = "Visiting" BY DEF IInv, PathAgrees, n
  <2>3. i # n => activePath[i].path # activePath[n].path BY <1>1 DEF IInv, PathAgrees, n
  <2> QED BY <1>1, <2>1, <2>2, <2>3 DEF Frames, p
<1>11. Followed(p, Len(Imports(p))) /\ visitStates[p] = "Visiting"
  BY <1>1, <1>10 DEF IInv, FollowedAreLinked, p
<1>12. ASSUME NEW i \in 1..m
       PROVE  linkedDeclarations[i].path \in Paths /\ visitStates[linkedDeclarations[i].path] = "Visited"
  <2>1. linkedDeclarations[i] \in Linked BY <1>4 DEF m
  <2> QED BY <2>1 DEF Linked, IInv, DeclarationsAreLinked, m
<1>13. ASSUME NEW i \in 1..(m + Len(d))
       PROVE  \/ i \in 1..m /\ linkedDeclarations'[i] = linkedDeclarations[i]
              \/ /\ i \in (m + 1)..(m + Len(d))
                 /\ linkedDeclarations'[i].path = p /\ linkedDeclarations'[i].at = i - m
  <2>1. CASE i <= m BY <1>4, <1>5, <2>1
  <2>2. CASE ~(i <= m)
    <3>1. i - m \in 1..Len(d) /\ i \in (m + 1)..(m + Len(d)) BY <1>3, <1>4, <2>2
    <3> QED BY <1>3, <1>5, <2>2, <3>1
  <2> QED BY <2>1, <2>2
<1>14. TypeOK' BY <1>1, <1>2, <1>5, <1>6, <1>7 DEF TypeOK
<1>15. PathAgrees'
  <2>1. \A i \in 1..(n - 1) : i \in 1..n /\ i # n BY <1>1
  <2>2. ASSUME NEW i \in 1..(n - 1)
        PROVE  /\ visitStates'[activePath'[i].path] = "Visiting"
               /\ activePath'[i].at <= Len(Imports(activePath'[i].path))
    <3>1. activePath'[i] = activePath[i] /\ i \in 1..n /\ i # n BY <1>7, <2>1
    <3>2. /\ activePath[i].path \in Paths /\ visitStates[activePath[i].path] = "Visiting"
          /\ activePath[i].path # p
      BY <1>10, <3>1
    <3>3. activePath[i].at <= Len(Imports(activePath[i].path)) BY <3>1 DEF IInv, PathAgrees, n
    <3> QED BY <1>6, <3>1, <3>2, <3>3
  <2>3. \A i, j \in 1..(n - 1) : activePath'[i].path = activePath'[j].path => i = j
    BY <1>7, <2>1 DEF IInv, PathAgrees, n
  <2>4. ASSUME NEW q \in Paths, visitStates'[q] = "Visiting"
        PROVE  \E i \in 1..(n - 1) : activePath'[i].path = q
    <3>1. q # p /\ visitStates[q] = "Visiting" BY <1>6, <2>4
    <3>2. PICK i \in 1..n : activePath[i].path = q BY <3>1 DEF IInv, PathAgrees, n
    <3>3. i \in 1..(n - 1) BY <1>1, <3>1, <3>2 DEF p
    <3> QED BY <1>7, <3>2, <3>3
  <2>5. ASSUME NEW i \in 1..(n - 1), i < n - 1
        PROVE  /\ activePath'[i].at > 0
               /\ Resolves(Imports(activePath'[i].path)[activePath'[i].at])
               /\ Resolved(Imports(activePath'[i].path)[activePath'[i].at]) = activePath'[i + 1].path
    <3>1. i \in 1..n /\ i < n /\ i + 1 \in 1..(n - 1) BY <1>1, <2>5
    <3> QED BY <1>7, <3>1 DEF IInv, PathAgrees, n
  <2> QED BY <1>7, <1>8, <2>2, <2>3, <2>4, <2>5 DEF PathAgrees
<1>16. FollowedAreLinked'
  <2>1. ASSUME NEW i \in 1..(n - 1) PROVE Followed(activePath'[i].path, activePath'[i].at - 1)
    <3>1. i \in 1..n /\ i < n BY <1>1
    <3> QED BY <1>7, <3>1 DEF IInv, FollowedAreLinked, n
  <2>2. ASSUME activePath' # <<>> PROVE Followed(Top.path, Top.at)'
    <3>1. n - 1 \in 1..(n - 1) /\ n - 1 \in 1..n /\ n - 1 < n /\ Top' = activePath[n - 1]
      BY <1>1, <1>7, <2>2
    <3>2. /\ activePath[n - 1].at > 0 /\ activePath[n - 1] \in Frames
          /\ Resolves(Imports(activePath[n - 1].path)[activePath[n - 1].at])
          /\ Resolved(Imports(activePath[n - 1].path)[activePath[n - 1].at]) = p
      <4>1. activePath[n - 1] \in Frames BY <1>1, <3>1 DEF TypeOK, n
      <4>2. n - 1 + 1 = n BY <1>1
      <4> QED BY <1>1, <3>1, <4>1, <4>2 DEF IInv, PathAgrees, n, p
    <3>3. PICK q \in Paths, k \in Nat \ {0} :
            q = activePath[n - 1].path /\ k = activePath[n - 1].at
      BY <3>2 DEF Frames
    <3>4. Followed(q, k - 1)' BY <1>7, <1>9, <2>1, <3>1, <3>3
    <3>5. \A l \in 1..k : l \in 1..(k - 1) \/ l = k OBVIOUS
    <3>6. Resolves(Imports(q)[k])' /\ visitStates'[Resolved(Imports(q)[k])'] = "Visited"
      BY <1>6, <1>8, <3>2, <3>3
    <3>7. Followed(q, k)' BY <3>4, <3>5, <3>6 DEF Followed
    <3>8. Top.path' = q /\ Top.at' = k BY <3>1, <3>3
    <3> QED BY <3>7, <3>8
  <2> QED BY <1>7, <1>9, <2>1, <2>2 DEF FollowedAreLinked
<1>17. LinkedAreClosed'
  <2>1. ASSUME NEW q \in Paths, visitStates'[q] = "Visited" PROVE Followed(q, Len(Imports(q)))
    BY <1>6, <1>11, <2>1 DEF IInv, LinkedAreClosed
  <2> QED BY <1>8, <1>9, <2>1 DEF LinkedAreClosed
<1>18. DeclarationsAreLinked' BY <1>5, <1>6, <1>12, <1>13 DEF DeclarationsAreLinked
<1>19. ImportsComeFirst'
  <2>1. ASSUME NEW i \in 1..(m + Len(d)), NEW j \in 1..(m + Len(d)),
               Needs(linkedDeclarations'[i].path, linkedDeclarations'[j].path)
        PROVE  j < i
    <3>1. CASE i \in 1..m /\ j \in 1..m
      <4>1. /\ linkedDeclarations'[i] = linkedDeclarations[i]
            /\ linkedDeclarations'[j] = linkedDeclarations[j]
        BY <1>3, <1>4, <1>13, <3>1
      <4> QED BY <2>1, <3>1, <4>1 DEF IInv, ImportsComeFirst, m
    <3>2. CASE i \in 1..m /\ j \notin 1..m
      <4>1. /\ linkedDeclarations'[i] = linkedDeclarations[i] /\ linkedDeclarations'[j].path = p
            /\ visitStates[linkedDeclarations[i].path] = "Visited"
            /\ linkedDeclarations[i].path \in Paths
        BY <1>3, <1>4, <1>12, <1>13, <3>2
      <4>2. Followed(linkedDeclarations[i].path, Len(Imports(linkedDeclarations[i].path)))
        BY <4>1 DEF IInv, LinkedAreClosed
      <4>3. visitStates[p] = "Visited" BY <2>1, <4>1, <4>2 DEF Needs, Followed
      <4> QED BY <1>11, <4>3
    <3>3. CASE i \notin 1..m /\ j \in 1..m BY <1>3, <1>4, <3>3
    <3>4. CASE i \notin 1..m /\ j \notin 1..m
      <4>1. linkedDeclarations'[i].path = p /\ linkedDeclarations'[j].path = p BY <1>13, <3>4
      <4>2. visitStates[p] = "Visited" BY <1>11, <2>1, <4>1 DEF Needs, Followed
      <4> QED BY <1>11, <4>2
    <3> QED BY <3>1, <3>2, <3>3, <3>4
  <2> QED BY <1>5, <1>8, <2>1 DEF ImportsComeFirst
<1>20. LinkedOnce'
  <2>1. ASSUME NEW i \in 1..(m + Len(d)), NEW j \in 1..(m + Len(d)),
               linkedDeclarations'[i] = linkedDeclarations'[j]
        PROVE  i = j
    <3>1. CASE i \in 1..m /\ j \in 1..m
      <4>1. /\ linkedDeclarations'[i] = linkedDeclarations[i]
            /\ linkedDeclarations'[j] = linkedDeclarations[j]
        BY <1>3, <1>4, <1>13, <3>1
      <4> QED BY <2>1, <3>1, <4>1 DEF IInv, LinkedOnce, m
    <3>2. CASE i \in 1..m /\ j \notin 1..m
      <4>1. linkedDeclarations'[i] = linkedDeclarations[i] /\ linkedDeclarations'[j].path = p
        BY <1>3, <1>4, <1>13, <3>2
      <4>2. visitStates[linkedDeclarations[i].path] = "Visited" BY <1>12, <3>2
      <4> QED BY <1>11, <2>1, <4>1, <4>2
    <3>3. CASE i \notin 1..m /\ j \in 1..m
      <4>1. linkedDeclarations'[j] = linkedDeclarations[j] /\ linkedDeclarations'[i].path = p
        BY <1>3, <1>4, <1>13, <3>3
      <4>2. visitStates[linkedDeclarations[j].path] = "Visited" BY <1>12, <3>3
      <4> QED BY <1>11, <2>1, <4>1, <4>2
    <3>4. CASE i \notin 1..m /\ j \notin 1..m
      <4>1. i - m = j - m BY <1>13, <2>1, <3>4
      <4> QED BY <1>3, <1>4, <4>1
    <3> QED BY <3>1, <3>2, <3>3, <3>4
  <2> QED BY <1>5, <2>1 DEF LinkedOnce
<1>21. StagesAgree'
  <2>1. reason' = "none" BY <1>1, <1>2 DEF IInv, StagesAgree
  <2>2. CASE n = 1
    <3>1. activePath' = <<>> BY <1>7, <2>2
    <3>2. p = project.entry BY <1>1, <2>2 DEF IInv, StagesAgree, p
    <3> QED BY <1>2, <1>6, <2>1, <2>2, <3>1, <3>2 DEF StagesAgree
  <2>3. CASE n # 1
    <3>1. activePath' # <<>> /\ activePath'[1] = activePath[1] BY <1>1, <1>7, <2>3
    <3> QED BY <1>1, <1>2, <2>1, <2>3, <3>1 DEF IInv, StagesAgree
  <2> QED BY <2>2, <2>3
<1> QED BY <1>14, <1>15, <1>16, <1>17, <1>18, <1>19, <1>20, <1>21 DEF IInv

\* The actions of the linker preserve the invariant.
LEMMA NextPreserves == IInv /\ [Next]_vars => IInv'
<1> SUFFICES ASSUME IInv, [Next]_vars PROVE IInv' OBVIOUS
<1>1. CASE Start BY <1>1, StartKeeps
<1>2. CASE IndexCompleted BY <1>2, IndexCompletedKeeps
<1>3. ASSUME NEW p \in Paths, IndexSource(p) PROVE IInv' BY <1>3, IndexSourceKeeps
<1>4. CASE ImportUnresolved BY <1>4, FailureKeeps DEF ImportUnresolved, Following, Reasons
<1>5. CASE ImportCircular BY <1>5, FailureKeeps DEF ImportCircular, Following, Reasons
<1>6. CASE ImportReused BY <1>6, ImportReusedKeeps
<1>7. CASE ImportVisited
  <2>1. CASE stage' = stage BY <1>7, <2>1, EnterKeeps
  <2>2. CASE stage' # stage
    <3>1. \E why \in {"unparsable", "modules", "depth"} :
            Fail(why) /\ UNCHANGED <<project, indexVars, graphVars>> /\ stage = "visit"
      BY <1>7, <2>2 DEF ImportVisited, Following, Refusal
    <3> QED BY <3>1, FailureKeeps DEF Reasons
  <2> QED BY <2>1, <2>2
<1>8. CASE ModuleLinked
  <2>1. CASE Forbidden(Top.path)
    <3>1. \E why \in {"config", "execution"} :
            Fail(why) /\ UNCHANGED <<project, indexVars, graphVars>> /\ stage = "visit"
      BY <1>8, <2>1 DEF ModuleLinked
    <3> QED BY <3>1, FailureKeeps DEF Reasons
  <2>2. CASE ~Forbidden(Top.path) BY <1>8, <2>2, LeaveKeeps
  <2> QED BY <2>1, <2>2
<1>9. CASE UNCHANGED vars
  <2>1. TypeOK' BY <1>9 DEF IInv, TypeOK, vars
  <2>2. PathAgrees' BY <1>9, ResolutionIsStable DEF IInv, PathAgrees, vars
  <2>3. FollowedAreLinked' /\ LinkedAreClosed'
    BY <1>9, ResolutionIsStable DEF IInv, FollowedAreLinked, LinkedAreClosed, Followed, vars
  <2>4. DeclarationsAreLinked' /\ ImportsComeFirst' /\ LinkedOnce'
    BY <1>9, ResolutionIsStable DEF IInv, DeclarationsAreLinked, ImportsComeFirst, LinkedOnce, vars
  <2>5. StagesAgree'
    <3>1. Wanted' = Wanted BY <1>9, ResolutionIsStable DEF Wanted, vars
    <3> QED BY <1>9, <3>1, ResolutionIsStable DEF IInv, StagesAgree, vars
  <2> QED BY <2>1, <2>2, <2>3, <2>4, <2>5 DEF IInv
<1> QED BY <1>1, <1>2, <1>3, <1>4, <1>5, <1>6, <1>7, <1>8, <1>9 DEF Next

(***************************************************************************)
(* The theorems.                                                           *)
(***************************************************************************)
\* The invariant holds of every project, whatever its import graph looks like.
THEOREM LinkerInvariant == Spec => []IInv
BY InitEstablishes, NextPreserves, PTL DEF Spec

\* No declaration stands in front of one that its source imports: visitModule appends the
\* declarations of a source when all of its imports are linked.
THEOREM DependenciesFirst == Spec => []ImportsComeFirst
<1>1. IInv => ImportsComeFirst BY DEF IInv
<1> QED BY <1>1, LinkerInvariant, PTL

\* No source is linked twice, however many sources import it.
THEOREM EachSourceOnce == Spec => []LinkedOnce
<1>1. IInv => LinkedOnce BY DEF IInv
<1> QED BY <1>1, LinkerInvariant, PTL

\* A linked project contains what it imports.
THEOREM ProjectIsClosed == Spec => []LinkedIsClosed
<1>1. IInv => LinkedIsClosed BY DEF IInv, LinkedIsClosed, StagesAgree, LinkedAreClosed, Followed
<1> QED BY <1>1, LinkerInvariant, PTL

\* failCircularImport reports cycles only.
THEOREM CyclesAreReal == Spec => []CircularIsReal
<1>1. ASSUME IInv, reason = "circular" PROVE CircularIsReal
  <2>1. /\ TypeOK /\ Len(activePath) > 0 /\ Top.at < Len(Imports(Top.path)) /\ Resolves(Wanted)
        /\ visitStates[Resolved(Wanted)] = "Visiting"
    BY <1>1 DEF IInv, StagesAgree
  <2>2. activePath # <<>> /\ Len(activePath) \in Nat \ {0} /\ Top.path \in Paths /\ Top.at \in Nat
    BY <2>1, TopIsFrame
  <2>3. Len(Imports(Top.path)) \in Nat BY <2>1, <2>2, ImportsAreNames
  <2>4. ASSUME NEW i \in 1..(Len(activePath) - 1)
        PROVE  Needs(activePath[i].path, activePath[i + 1].path)
    <3>1. i \in 1..Len(activePath) /\ i < Len(activePath) BY <2>2
    <3>2. activePath[i] \in Frames /\ activePath[i].at \in Nat /\ activePath[i].path \in Paths
      <4>1. activePath[i] \in Frames BY <2>1, <3>1 DEF TypeOK
      <4> QED BY <4>1 DEF Frames
    <3>3. activePath[i].at \in 1..Len(Imports(activePath[i].path))
      BY <1>1, <2>1, <3>1, <3>2, ImportsAreNames DEF IInv, PathAgrees
    <3> QED BY <1>1, <3>1, <3>3 DEF IInv, PathAgrees, Needs
  <2>5. Resolved(Wanted) \in Paths BY <2>1, ResolvedIsPath
  <2>6. PICK i \in 1..Len(activePath) : activePath[i].path = Resolved(Wanted)
    BY <1>1, <2>1, <2>5 DEF IInv, PathAgrees
  <2>7. Needs(Top.path, Resolved(Wanted))
    <3>1. Top.at + 1 \in 1..Len(Imports(Top.path)) BY <2>1, <2>2, <2>3
    <3> QED BY <2>1, <3>1 DEF Needs, Wanted
  <2> QED BY <2>4, <2>6, <2>7 DEF CircularIsReal
<1>2. IInv => CircularIsReal BY <1>1 DEF CircularIsReal
<1> QED BY <1>2, LinkerInvariant, PTL

\* Every step keeps the counts.
LEMMA CountsNext == IInv /\ CountsAgree /\ [Next]_vars => CountsAgree'
<1> SUFFICES ASSUME IInv, CountsAgree, [Next]_vars PROVE CountsAgree' OBVIOUS
<1> USE LimitsArePositive
<1>1. /\ TypeOK /\ Len(activePath) \in Nat /\ linkedModuleCount \in Nat
      /\ activePath \in Seq(Frames)
  BY DEF IInv, TypeOK
<1>2. CASE UNCHANGED <<activePath, linkedModuleCount>> /\ (stage' \in {"start", "index"} => stage \in {"start", "index"})
  BY <1>2 DEF CountsAgree
<1>3. CASE stage \in {"start", "index"} /\ stage' = "visit" /\ Push(project.entry)
  <2>1. activePath = <<>> /\ project.entry \in Paths
    BY <1>1, <1>3 DEF IInv, StagesAgree, TypeOK, ProjectShape
  <2>2. activePath' = <<[path |-> project.entry, at |-> 0]>> BY <1>3, <2>1 DEF Push
  <2>3. Len(activePath') = 1 BY <2>2
  <2>4. linkedModuleCount' = 0 BY <1>3 DEF Push, CountsAgree
  <2> QED BY <1>3, <2>3, <2>4 DEF CountsAgree
<1>4. CASE Start
  BY <1>2, <1>3, <1>4 DEF Start, Fail, graphVars
<1>5. CASE IndexCompleted BY <1>3, <1>5 DEF IndexCompleted
<1>6. ASSUME NEW p \in Paths, IndexSource(p) PROVE CountsAgree'
  BY <1>2, <1>6 DEF IndexSource, graphVars
<1>7. CASE ImportUnresolved \/ ImportCircular
  BY <1>2, <1>7 DEF ImportUnresolved, ImportCircular, Following, Fail, graphVars
<1>8. CASE ImportReused
  <2>1. activePath # <<>> /\ activePath' = Advanced /\ stage' = "visit"
        /\ linkedModuleCount' = linkedModuleCount
    BY <1>8 DEF ImportReused, Following
  <2>2. Len(activePath') = Len(activePath) BY <1>1, <2>1, AdvancedPath
  <2> QED BY <2>1, <2>2 DEF CountsAgree
<1>9. CASE ImportVisited
  <2>1. activePath # <<>> /\ stage = "visit" BY <1>9 DEF ImportVisited, Following
  <2>2. CASE Fail("unparsable") \/ Fail(Refusal)
    <3>1. stage' = "failed" BY <2>2 DEF Fail
    <3>2. UNCHANGED <<activePath, linkedModuleCount>>
      BY <1>9, <2>1, <3>1 DEF ImportVisited, graphVars
    <3> QED BY <1>2, <3>1, <3>2
  <2>3. CASE ~(Fail("unparsable") \/ Fail(Refusal))
    <3> DEFINE p == Resolved(Wanted)
               f == [path |-> p, at |-> 0]
    <3>1. /\ MayVisit /\ activePath' = Append(Advanced, f) /\ stage' = "visit"
          /\ linkedModuleCount' = linkedModuleCount
      BY <1>9, <2>1, <2>3 DEF ImportVisited
    <3>2. f \in Frames BY <1>9, ResolvedIsPath DEF ImportVisited, Frames
    <3> HIDE DEF f
    <3>3. Len(activePath') = Len(activePath) + 1
      BY <1>1, <2>1, <3>1, <3>2, AdvancedPath, AppendedPath
    <3> QED BY <1>1, <3>1, <3>3 DEF MayVisit, CountsAgree
  <2> QED BY <2>2, <2>3
<1>10. CASE ModuleLinked
  <2>1. activePath # <<>> /\ stage = "visit" BY <1>10 DEF ModuleLinked
  <2>2. CASE Forbidden(Top.path)
    BY <1>2, <1>10, <2>2 DEF ModuleLinked, Fail, graphVars
  <2>3. CASE ~Forbidden(Top.path)
    <3>1. /\ activePath' = Popped /\ linkedModuleCount' = linkedModuleCount + 1
          /\ stage' \in {"linked", "visit"}
      BY <1>10, <2>3 DEF ModuleLinked
    <3>2. Len(activePath') = Len(activePath) - 1 BY <1>1, <2>1, <3>1, PoppedPath
    <3> QED BY <1>1, <3>1, <3>2 DEF CountsAgree
  <2> QED BY <2>2, <2>3
<1>11. CASE UNCHANGED vars BY <1>2, <1>11 DEF vars
<1> QED BY <1>4, <1>5, <1>6, <1>7, <1>8, <1>9, <1>10, <1>11 DEF Next

\* What the limits of visitModule come to.  It compares the number of sources that are left
\* with MaximumImportedModules before it enters another, so that as many more as fit on the
\* path may be linked.
THEOREM LinkingIsBoundedTheorem == Spec => []LinkingIsBounded
<1>1. Init => CountsAgree
  BY LimitsArePositive DEF Init, Unstarted, CountsAgree
<1>2. IInv /\ CountsAgree => LinkingIsBounded
  <2> SUFFICES ASSUME IInv, CountsAgree PROVE LinkingIsBounded OBVIOUS
  <2>1. Len(activePath) \in Nat /\ linkedModuleCount \in Nat BY DEF IInv, TypeOK
  <2> QED BY <2>1, LimitsArePositive DEF CountsAgree, LinkingIsBounded
<1> QED BY <1>1, <1>2, CountsNext, LinkerInvariant, PTL DEF Spec

\* Every step advances.
LEMMA StepAdvances == IInv /\ [Next]_vars => [Advances]_vars
<1> SUFFICES ASSUME IInv, Next PROVE Advances BY DEF vars
<1>1. TypeOK BY DEF IInv
<1>2. ASSUME ~Decided, Decided' PROVE Advances BY <1>2 DEF Advances
<1>3. CASE Start BY <1>2, <1>3 DEF Start, Fail, Decided, Advances, StageBegins
<1>4. CASE IndexCompleted BY <1>4 DEF IndexCompleted, Decided, Advances, StageBegins
<1>5. ASSUME NEW p \in Paths, IndexSource(p) PROVE Advances
  <2>1. stage = "index" /\ p \notin sourceIndex BY <1>5 DEF IndexSource
  <2>2. CASE TooManyFiles \/ TooManyBytes(p)
    BY <1>2, <1>5, <2>1, <2>2 DEF IndexSource, Fail, Decided
  <2>3. CASE ~(TooManyFiles \/ TooManyBytes(p))
    BY <1>1, <1>5, <2>1, <2>3 DEF IndexSource, Advances, FileIsIndexed, Decided, TypeOK
  <2> QED BY <2>2, <2>3
<1>6. CASE ImportUnresolved \/ ImportCircular
  BY <1>2, <1>6 DEF ImportUnresolved, ImportCircular, Following, Fail, Decided
<1>7. CASE ImportReused
  <2>1. /\ stage = "visit" /\ activePath # <<>> /\ Top.at < Len(Imports(Top.path))
        /\ activePath' = Advanced /\ UNCHANGED <<project, stage, visitStates>>
    BY <1>7 DEF ImportReused, Following
  <2>2. Top.at \in Nat /\ Len(Imports(Top.path)) \in Nat
    BY <1>1, <2>1, TopIsFrame, ImportsAreNames
  <2>3. /\ Len(activePath') = Len(activePath) /\ Top'.path = Top.path /\ Top'.at = Top.at + 1
    BY <1>1, <2>1, AdvancedPath DEF Top
  <2>4. ImportIsFollowed BY <2>1, <2>2, <2>3 DEF ImportIsFollowed, Unentered
  <2> QED BY <2>1, <2>4 DEF Advances, Decided
<1>8. CASE ImportVisited
  <2> DEFINE p == Resolved(Wanted)
  <2>1. stage = "visit" /\ p \in Paths /\ visitStates[p] = "New"
    BY <1>8, ResolvedIsPath DEF ImportVisited, Following
  <2> HIDE DEF p
  <2>2. \/ stage' = "failed"
        \/ UNCHANGED stage /\ visitStates' = [visitStates EXCEPT ![p] = "Visiting"]
    BY <1>8 DEF ImportVisited, Fail, p
  <2>3. CASE stage' = "failed" BY <1>2, <2>1, <2>3 DEF Decided
  <2>4. CASE UNCHANGED stage /\ visitStates' = [visitStates EXCEPT ![p] = "Visiting"]
    <3>1. p \in Unentered /\ p \notin Unentered' /\ Unentered' \subseteq Unentered
      BY <1>1, <2>1, <2>4 DEF Unentered, TypeOK
    <3> QED BY <2>1, <2>4, <3>1 DEF Advances, SourceIsEntered, Decided
  <2> QED BY <2>2, <2>3, <2>4
<1>9. CASE ModuleLinked
  <2>1. stage = "visit" /\ activePath # <<>> BY <1>9 DEF ModuleLinked
  <2>2. CASE Forbidden(Top.path) BY <1>2, <1>9, <2>1, <2>2 DEF ModuleLinked, Fail, Decided
  <2>3. CASE ~Forbidden(Top.path)
    <3>1. /\ activePath' = Popped /\ visitStates' = [visitStates EXCEPT ![Top.path] = "Visited"]
          /\ stage' \in {"linked", "visit"}
      BY <1>9, <2>3 DEF ModuleLinked
    <3>2. Len(activePath') < Len(activePath) BY <1>1, <2>1, <3>1, PoppedPath, TopIsFrame
    <3>3. Top.path \in Paths /\ visitStates[Top.path] = "Visiting"
      BY <1>1, <2>1, TopIsFrame DEF IInv, PathAgrees, Top
    <3>4. Unentered' = Unentered BY <1>1, <3>1, <3>3 DEF Unentered, TypeOK
    <3> QED BY <1>2, <2>1, <3>1, <3>2, <3>4 DEF Advances, SourceIsLeft, Decided
  <2> QED BY <2>2, <2>3
<1> QED BY <1>3, <1>4, <1>5, <1>6, <1>7, <1>8, <1>9 DEF Next

\* Linking ends: no step of it is in vain, and it stops only when it is decided.
THEOREM LinkingEndsTheorem == Spec => LinkingAdvances /\ []CanGoOn
<1>1. ASSUME IInv, stage = "visit" PROVE activePath # <<>> /\ (Following \/ Top.at = Len(Imports(Top.path)))
  <2>1. TypeOK /\ activePath # <<>> BY <1>1 DEF IInv, StagesAgree
  <2>2. Top.at \in Nat /\ Len(Imports(Top.path)) \in Nat
    BY <2>1, TopIsFrame, ImportsAreNames
  <2>3. Top.at <= Len(Imports(Top.path))
    BY <1>1, <2>1, TopIsFrame DEF IInv, PathAgrees, Top
  <2> QED BY <1>1, <2>1, <2>2, <2>3 DEF Following
<1>2. IInv => CanGoOn BY <1>1 DEF CanGoOn
<1> QED BY <1>2, StepAdvances, LinkerInvariant, PTL DEF Spec, LinkingAdvances
=============================================================================
