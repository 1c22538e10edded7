----------------------------- MODULE ProjectLinker -----------------------------
(***************************************************************************)
(* The linker of a project (compiler/project/ProjectLinker.cpp): from the  *)
(* entry source it follows the imports depth first, each source once, and  *)
(* collects the declarations of a source behind those of its imports.      *)
(*                                                                         *)
(* visitModule is recursive; activePath is its stack, one frame per source *)
(* that is being visited, with the number of imports it has followed.      *)
(***************************************************************************)
EXTENDS Integers, Sequences, FiniteSets

CONSTANTS Paths,                       \* canonical paths of files under the root
          Names,                       \* what an import can name
          ConfigName,                  \* "config.cra"
          Projects,                    \* the projects that are linked
          MaximumImportedModules, MaximumImportDepth,
          MaximumProjectSourceFiles, MaximumProjectSourceBytes

ASSUME LimitsArePositive ==
  /\ MaximumImportedModules \in Nat \ {0} /\ MaximumImportDepth \in Nat \ {0}
  /\ MaximumProjectSourceFiles \in Nat /\ MaximumProjectSourceBytes \in Nat

\* What Parser::parse leaves of a source for the linker: which sources it imports, in
\* order, and its other declarations.
DeclarationKinds == {"Config", "Model", "Function", "Variable", "Expression"}
Units == [imports : Seq(Names), declares : Seq(DeclarationKinds)]

\* A project: its entry, whether that is inside the root, the file name of each file, the
\* regular files the directory iterator reaches with their sizes, what they contain, and
\* those that cannot be loaded, scanned or parsed.
ProjectShape == [entry : Paths, inside : BOOLEAN, filename : [Paths -> Names],
                 regular : SUBSET Paths, size : [Paths -> Nat],
                 unit : [Paths -> Units], broken : SUBSET Paths]

ASSUME ProjectsGiven == Projects \subseteq ProjectShape

VARIABLES project,
          stage,              \* "start", "index", "visit", "linked", "failed"
          reason,             \* the diagnostic of a failure
          sourceIndex,        \* the files that were indexed
          indexedSourceBytes,
          visitStates,        \* VisitState of a path, "New" if it has none
          activePath,         \* frames [path, at]
          linkedDeclarations, \* [path, at]: the declaration at of a source
          linkedModuleCount

vars == <<project, stage, reason, sourceIndex, indexedSourceBytes, visitStates, activePath,
          linkedDeclarations, linkedModuleCount>>
indexVars == <<sourceIndex, indexedSourceBytes>>
graphVars == <<visitStates, activePath, linkedDeclarations, linkedModuleCount>>

Frames == [path : Paths, at : Nat]
Linked == [path : Paths, at : Nat \ {0}]
Reasons == {"none", "outside", "files", "bytes", "configImport", "missing", "ambiguous", "circular",
            "unparsable", "modules", "depth", "config", "execution"}

TypeOK ==
  /\ project \in ProjectShape
  /\ stage \in {"start", "index", "visit", "linked", "failed"} /\ reason \in Reasons
  /\ sourceIndex \subseteq Paths /\ indexedSourceBytes \in Nat
  /\ visitStates \in [Paths -> {"New", "Visiting", "Visited"}]
  /\ activePath \in Seq(Frames) /\ linkedDeclarations \in Seq(Linked)
  /\ linkedModuleCount \in Nat

\* ProjectLinker::link, in front of run.
Unstarted ==
  /\ stage = "start" /\ reason = "none"
  /\ sourceIndex = {} /\ indexedSourceBytes = 0
  /\ visitStates = [p \in Paths |-> "New"]
  /\ activePath = <<>> /\ linkedDeclarations = <<>> /\ linkedModuleCount = 0
Init == project \in Projects /\ Unstarted

Imports(p) == project.unit[p].imports
Declares(p) == project.unit[p].declares
HasImports == Imports(project.entry) # <<>>
Top == activePath[Len(activePath)]

Fail(why) == stage' = "failed" /\ reason' = why

-----------------------------------------------------------------------------
(* indexProjectSources: only if the entry imports something.               *)

\* A source joins the path, unless too many are linked or too many are on it.
MayVisit == linkedModuleCount < MaximumImportedModules /\ Len(activePath) < MaximumImportDepth
Refusal == IF linkedModuleCount >= MaximumImportedModules THEN "modules" ELSE "depth"
Push(p) ==
  /\ visitStates' = [visitStates EXCEPT ![p] = "Visiting"]
  /\ activePath' = Append(activePath, [path |-> p, at |-> 0])
  /\ UNCHANGED <<linkedDeclarations, linkedModuleCount>>

Start ==
  /\ stage = "start"
  /\ IF ~project.inside THEN Fail("outside") /\ UNCHANGED graphVars
     ELSE IF HasImports THEN stage' = "index" /\ UNCHANGED <<graphVars, reason>>
     ELSE stage' = "visit" /\ Push(project.entry) /\ UNCHANGED reason
  /\ UNCHANGED <<project, indexVars>>

TooManyFiles == Cardinality(sourceIndex) >= MaximumProjectSourceFiles
TooManyBytes(p) == \/ indexedSourceBytes >= MaximumProjectSourceBytes
                   \/ indexedSourceBytes + project.size[p] > MaximumProjectSourceBytes

\* One entry of the directory iterator, in an order that the system chooses.
IndexSource(p) ==
  /\ stage = "index" /\ p \in project.regular \ sourceIndex
  /\ IF TooManyFiles \/ TooManyBytes(p)
       THEN Fail(IF TooManyFiles THEN "files" ELSE "bytes") /\ UNCHANGED indexVars
       ELSE /\ sourceIndex' = sourceIndex \cup {p}
            /\ indexedSourceBytes' = indexedSourceBytes + project.size[p]
            /\ UNCHANGED <<stage, reason>>
  /\ UNCHANGED <<project, graphVars>>

IndexCompleted ==
  /\ stage = "index" /\ project.regular \subseteq sourceIndex
  /\ stage' = "visit" /\ Push(project.entry)
  /\ UNCHANGED <<project, reason, indexVars>>

-----------------------------------------------------------------------------
(* visitModule                                                             *)

Matches(name) == {p \in sourceIndex : project.filename[p] = name}
Resolves(name) == name # ConfigName /\ \E p \in Paths : Matches(name) = {p}
Resolved(name) == CHOOSE p \in Paths : Matches(name) = {p}

\* The import the newest source has to follow next.
Following == stage = "visit" /\ activePath # <<>> /\ Top.at < Len(Imports(Top.path))
Wanted == Imports(Top.path)[Top.at + 1]
Advanced == [activePath EXCEPT ![Len(activePath)].at = @ + 1]

\* resolveImport: config.cra, no file or several files of that name.
ImportUnresolved ==
  /\ Following /\ ~Resolves(Wanted)
  /\ Fail(IF Wanted = ConfigName THEN "configImport"
          ELSE IF Matches(Wanted) = {} THEN "missing" ELSE "ambiguous")
  /\ UNCHANGED <<project, indexVars, graphVars>>

\* failCircularImport: the source is on the path already.
ImportCircular ==
  /\ Following /\ Resolves(Wanted) /\ visitStates[Resolved(Wanted)] = "Visiting"
  /\ Fail("circular")
  /\ UNCHANGED <<project, indexVars, graphVars>>

\* Faulty: stays at the import.
ReuseStays ==
  /\ Following /\ Resolves(Wanted) /\ visitStates[Resolved(Wanted)] = "Visited"
  /\ UNCHANGED vars
ImportReused ==
  /\ Following /\ Resolves(Wanted) /\ visitStates[Resolved(Wanted)] = "Visited"
  /\ activePath' = Advanced
  /\ UNCHANGED <<project, stage, reason, indexVars, visitStates, linkedDeclarations,
                 linkedModuleCount>>

\* parseImportedSource, and the recursive call.
ImportVisited ==
  /\ Following /\ Resolves(Wanted)
  /\ LET p == Resolved(Wanted) IN
       /\ visitStates[p] = "New"
       /\ IF p \in project.broken THEN Fail("unparsable") /\ UNCHANGED graphVars
          ELSE IF ~MayVisit THEN Fail(Refusal) /\ UNCHANGED graphVars
          ELSE /\ visitStates' = [visitStates EXCEPT ![p] = "Visiting"]
               /\ activePath' = Append(Advanced, [path |-> p, at |-> 0])
               /\ UNCHANGED <<stage, reason, linkedDeclarations, linkedModuleCount>>
  /\ UNCHANGED <<project, indexVars>>

\* Only the entry may configure or execute.
Forbidden(p) ==
  p # project.entry /\ \E i \in 1..Len(Declares(p)) : Declares(p)[i] \in {"Config", "Expression"}
FirstForbidden(p) ==
  CHOOSE d \in {"Config", "Expression"} :
    \E i \in 1..Len(Declares(p)) :
      /\ Declares(p)[i] = d
      /\ \A j \in 1..(i - 1) : Declares(p)[j] \notin {"Config", "Expression"}

\* Faulty: puts a source in front of what it imports.
CollectedInFront(p) ==
  [i \in 1..Len(Declares(p)) |-> [path |-> p, at |-> i]] \o linkedDeclarations
Collected(p) ==
  linkedDeclarations \o [i \in 1..Len(Declares(p)) |-> [path |-> p, at |-> i]]
Popped == SubSeq(activePath, 1, Len(activePath) - 1)

\* All imports are linked: the declarations of the source follow, and it is left.
ModuleLinked ==
  /\ stage = "visit" /\ activePath # <<>> /\ Top.at = Len(Imports(Top.path))
  /\ IF Forbidden(Top.path)
       THEN /\ Fail(IF FirstForbidden(Top.path) = "Config" THEN "config" ELSE "execution")
            /\ UNCHANGED graphVars
       ELSE /\ linkedDeclarations' = Collected(Top.path)
            /\ visitStates' = [visitStates EXCEPT ![Top.path] = "Visited"]
            /\ activePath' = Popped
            /\ linkedModuleCount' = linkedModuleCount + 1
            /\ stage' = IF Len(activePath) = 1 THEN "linked" ELSE "visit"
            /\ UNCHANGED reason
  /\ UNCHANGED <<project, indexVars>>

Next ==
  \/ Start \/ IndexCompleted
  \/ \E p \in Paths : IndexSource(p)
  \/ ImportUnresolved \/ ImportCircular \/ ImportReused \/ ImportVisited \/ ModuleLinked

Spec == Init /\ [][Next]_vars /\ WF_vars(Next)

-----------------------------------------------------------------------------
(* What linking promises (language-foundation.md, section 56).             *)

\* Source p imports source q.
Needs(p, q) == \E i \in 1..Len(Imports(p)) : Resolves(Imports(p)[i]) /\ Resolved(Imports(p)[i]) = q

\* "Dependencies are linked before their importers": no declaration stands in front of one
\* of a source that its own source imports.  Whatever is linked is therefore without cycles.
ImportsComeFirst ==
  \A i, j \in 1..Len(linkedDeclarations) :
    Needs(linkedDeclarations[i].path, linkedDeclarations[j].path) => j < i

\* "Each source is linked once, including diamond graphs": no declaration appears twice.
LinkedOnce ==
  \A i, j \in 1..Len(linkedDeclarations) : linkedDeclarations[i] = linkedDeclarations[j] => i = j

\* A linked project is complete: it has the entry, every import in it resolves, and what
\* is imported is linked as well.
LinkedIsClosed ==
  stage = "linked" =>
    /\ visitStates[project.entry] = "Visited"
    /\ \A p \in Paths : visitStates[p] = "Visited" =>
         \A i \in 1..Len(Imports(p)) :
           Resolves(Imports(p)[i]) /\ visitStates[Resolved(Imports(p)[i])] = "Visited"

\* A cycle that is reported is one: each source on the path imports the one behind it,
\* and the newest one imports a source of the path.
CircularIsReal ==
  reason = "circular" =>
    /\ \A i \in 1..(Len(activePath) - 1) : Needs(activePath[i].path, activePath[i + 1].path)
    /\ \E i \in 1..Len(activePath) : Needs(Top.path, activePath[i].path)

\* What the limits of visitModule come to: it counts a source when it is left and asks when
\* one is entered, so that the sources on the path come on top of MaximumImportedModules.
LinkingIsBounded ==
  /\ Len(activePath) <= MaximumImportDepth
  /\ linkedModuleCount <= MaximumImportedModules + MaximumImportDepth - 1

\* Linking ends, whatever imports what: a step decides, begins the next stage, indexes one
\* more file, enters a source that was not entered before, leaves one, or else follows one
\* more import of the source on top.  No step undoes what came earlier in this list, and
\* of each there are finitely many in a finite project.
Decided == stage \in {"linked", "failed"}
Unentered == {p \in Paths : visitStates[p] = "New"}
StageBegins == <<stage, stage'>> \in {<<"start", "index">>, <<"start", "visit">>, <<"index", "visit">>}
FileIsIndexed ==
  /\ stage = "index" /\ UNCHANGED stage
  /\ sourceIndex \subseteq sourceIndex' /\ sourceIndex # sourceIndex' /\ sourceIndex' \subseteq Paths
SourceIsEntered ==
  stage = "visit" /\ UNCHANGED stage /\ Unentered' \subseteq Unentered /\ Unentered' # Unentered
SourceIsLeft ==
  /\ stage = "visit" /\ UNCHANGED <<stage, Unentered>>
  /\ Len(activePath') < Len(activePath)
ImportIsFollowed ==
  /\ stage = "visit" /\ UNCHANGED <<stage, Unentered, Len(activePath), Top.path>>
  /\ Top.at < Top.at' /\ Top.at' <= Len(Imports(Top.path))
Advances ==
  /\ ~Decided
  /\ \/ Decided' \/ StageBegins \/ FileIsIndexed
     \/ SourceIsEntered \/ SourceIsLeft \/ ImportIsFollowed
LinkingAdvances == [][Advances]_vars

\* And it does not stop before: a visit always has a source on top, whose next import can
\* be followed or refused, or which can be left.
CanGoOn == stage = "visit" => activePath # <<>> /\ (Following \/ Top.at = Len(Imports(Top.path)))

\* The sources on the path and the linked ones.  Leaving one moves it from the former to the
\* latter; only entering one adds to the two.
CountsAgree ==
  /\ Len(activePath) <= MaximumImportDepth
  /\ linkedModuleCount + Len(activePath) <= MaximumImportedModules + MaximumImportDepth - 1
  /\ stage \in {"start", "index"} => linkedModuleCount = 0

-----------------------------------------------------------------------------
(* The inductive invariant.                                                *)

\* The sources on the path are those that are being visited, each once, and each was
\* entered through the import that its predecessor followed last.
PathAgrees ==
  /\ \A i \in 1..Len(activePath) : /\ visitStates[activePath[i].path] = "Visiting"
                                   /\ activePath[i].at <= Len(Imports(activePath[i].path))
  /\ \A i, j \in 1..Len(activePath) : activePath[i].path = activePath[j].path => i = j
  /\ \A p \in Paths : visitStates[p] = "Visiting" =>
       \E i \in 1..Len(activePath) : activePath[i].path = p
  /\ \A i \in 1..Len(activePath) : i < Len(activePath) =>
       /\ activePath[i].at > 0
       /\ Resolves(Imports(activePath[i].path)[activePath[i].at])
       /\ Resolved(Imports(activePath[i].path)[activePath[i].at]) = activePath[i + 1].path

\* The first n imports of a source are linked.
Followed(p, n) ==
  \A k \in 1..n : Resolves(Imports(p)[k]) /\ visitStates[Resolved(Imports(p)[k])] = "Visited"

\* Every import a source on the path has followed is linked, the last one only once it is
\* left; so is every import of a linked source.
FollowedAreLinked ==
  /\ \A i \in 1..Len(activePath) : i < Len(activePath) =>
       Followed(activePath[i].path, activePath[i].at - 1)
  /\ activePath # <<>> => Followed(Top.path, Top.at)
LinkedAreClosed ==
  \A p \in Paths : visitStates[p] = "Visited" => Followed(p, Len(Imports(p)))

\* Declarations are those of linked sources; the first source on the path is the entry.
DeclarationsAreLinked ==
  \A i \in 1..Len(linkedDeclarations) : visitStates[linkedDeclarations[i].path] = "Visited"
StagesAgree ==
  /\ stage \in {"start", "index"} => activePath = <<>> /\ \A p \in Paths : visitStates[p] = "New"
  /\ stage = "visit" => activePath # <<>>
  /\ stage = "linked" => activePath = <<>> /\ visitStates[project.entry] = "Visited"
  /\ activePath # <<>> => activePath[1].path = project.entry
  /\ reason = "circular" =>
       /\ stage = "failed" /\ Len(activePath) > 0 /\ Top.at < Len(Imports(Top.path))
       /\ Resolves(Wanted) /\ visitStates[Resolved(Wanted)] = "Visiting"
  /\ stage # "failed" => reason = "none"

IInv ==
  /\ TypeOK /\ PathAgrees /\ FollowedAreLinked /\ LinkedAreClosed /\ DeclarationsAreLinked
  /\ StagesAgree /\ ImportsComeFirst /\ LinkedOnce
=============================================================================
