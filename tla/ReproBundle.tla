---------------------------- MODULE ReproBundle ----------------------------
(* `caudit bundle` (eval/repro_bundle.py): the public artifacts under a root   *)
(* are written to one archive, with the tables that can be read off them and a *)
(* manifest of checksums, and an archive is verified against its manifest.     *)
(*                                                                             *)
(* A checksum is the content it stands for.  An archive is a sequence of       *)
(* members [name, data].                                                       *)
EXTENDS Integers, Sequences, SequencesExt, FiniteSets, Functions, KeyedData

CONSTANTS
    PathOrder,    \* every file of the tree, in the order of its name
    PublicFiles,  \* those with a safe suffix and no private directory above
    RunFiles,     \* those that hold a run report or a matrix
    Selections,   \* command lines: a sequence of [inside, files]
    NoArchive, Garbled,   \* no archive; data that was damaged
    MaxBuilds, MaxDamage

Bystander == "elsewhere"   \* a member outside artifacts/

ASSUME ReproBundleAssumption ==
    /\ PathOrder \in Seq(STRING) /\ IsInjective(PathOrder)
    /\ ToSet(PathOrder) \cap {"manifest", "tables", "unsafe", Bystander} = {}
    /\ MaxBuilds \in Nat /\ MaxDamage \in Nat

VARIABLES
    tree,       \* file -> content
    archive,    \* the archive on disk
    verdict,    \* "none", "accepted", "refused"
    builds,     \* history: [files, archive] of each bundle built
    damaged     \* how often the archive was damaged since it was built

bundleVars == <<tree, archive, verdict, builds, damaged>>

-----------------------------------------------------------------------------
Member(name, data) == [name |-> name, data |-> data]

(* Files named by an input, in the order in which the inputs list them; a file *)
(* that two inputs name is collected once.                                     *)
Listed(selection) ==
    SelectSeq(FlattenSeq([i \in DOMAIN selection |-> selection[i].files]),
              LAMBDA f : f \in PublicFiles /\ f \in DOMAIN tree)

(* Mutant: in the order of the inputs, as they come. *)
CollectAsListed(selection) == Listed(selection)

Collect(selection) ==
    AtPlaces(PathOrder,
             {i \in DOMAIN PathOrder : PathOrder[i] \in ToSet(Listed(selection))})

Payloads(files) == [i \in DOMAIN files |-> Member(files[i], tree[files[i]])]

(* The tables are read off the payloads that are reports. *)
Tables(payloads) == SelectSeq(payloads, LAMBDA m : m.name \in RunFiles)

Archive(payloads) ==
    <<Member("manifest", [artifacts |-> payloads, tables |-> Tables(payloads)]),
      Member("tables", Tables(payloads))>> \o payloads

Refused(selection) ==
    (\E i \in DOMAIN selection : ~ selection[i].inside) \/ Collect(selection) = <<>>

BuildBundle ==
    /\ Cardinality(builds) < MaxBuilds
    /\ \E selection \in Selections :
           LET payloads == Payloads(Collect(selection))
           IN  /\ ~ Refused(selection)
               /\ archive' = Archive(payloads)
               /\ builds' = builds \cup {[files |-> ToSet(payloads), archive |-> archive']}
    /\ verdict' = "none" /\ damaged' = 0
    /\ UNCHANGED tree

-----------------------------------------------------------------------------
Names == [i \in DOMAIN archive |-> archive[i].name]
Readable ==
    archive # NoArchive /\ IsInjective(Names) /\ "unsafe" \notin ToSet(Names)
DataOf(name) == archive[CHOOSE i \in DOMAIN archive : Names[i] = name].data
Inventory == ToSet(Names) \ {"manifest", "tables", Bystander}

(* Mutant: the files are all there, whatever is in them. *)
NamesMatch(listed) == {m.name : m \in ToSet(listed)} = Inventory

ArtifactsMatch(listed) ==
    /\ {m.name : m \in ToSet(listed)} = Inventory
    /\ \A m \in ToSet(listed) : DataOf(m.name) = m.data

VerifyBundle ==
    /\ archive # NoArchive /\ verdict = "none"
    /\ verdict' =
           IF /\ Readable
              /\ {"manifest", "tables"} \subseteq ToSet(Names)
              /\ DataOf("manifest") # Garbled
              /\ DataOf("tables") = DataOf("manifest").tables
              /\ ArtifactsMatch(DataOf("manifest").artifacts)
           THEN "accepted" ELSE "refused"
    /\ UNCHANGED <<tree, archive, builds, damaged>>

(* A member is altered, lost, doubled or added, or the end of the archive was  *)
(* never written.                                                              *)
Damage ==
    /\ archive # NoArchive /\ verdict = "none" /\ damaged < MaxDamage
    /\ damaged' = damaged + 1
    /\ \/ \E i \in DOMAIN archive :
              archive' \in {[archive EXCEPT ![i].data = Garbled], RemoveAt(archive, i),
                            SubSeq(archive, 1, i), Append(archive, archive[i])}
       \/ \E name \in ToSet(PathOrder) \cup {"unsafe", Bystander} :
              archive' = Append(archive, Member(name, Garbled))
    /\ UNCHANGED <<tree, verdict, builds>>

EditTree ==
    /\ \E f \in DOMAIN tree : tree' = [tree EXCEPT ![f] = 3 - @]
    /\ UNCHANGED <<archive, verdict, builds, damaged>>

BundleIdle ==
    /\ tree = [f \in ToSet(PathOrder) |-> 1] /\ archive = NoArchive /\ verdict = "none"
    /\ builds = {} /\ damaged = 0

BundleNext == BuildBundle \/ VerifyBundle \/ Damage \/ EditTree
BundleSpec == BundleIdle /\ [][BundleNext]_bundleVars

-----------------------------------------------------------------------------
(* The same public artifacts give the same archive, member for member          *)
(* (repro_bundle.py build_reproducible_bundle): the order and the overlap of   *)
(* the inputs and the private files between them leave no trace.               *)
SameFilesSameArchive ==
    \A a, b \in builds : a.files = b.files => a.archive = b.archive

(* An archive that is accepted holds exactly the artifacts and the tables of a *)
(* bundle that was built, whatever was altered, lost, doubled, added or cut    *)
(* off in between (verify_reproducible_bundle).                                *)
DamageIsFound ==
    verdict = "accepted" =>
        \E b \in builds : ToSet(b.archive) = {m \in ToSet(archive) : m.name # Bystander}

(* What was built and left alone is accepted: inputs that overlap do not make  *)
(* an archive its own verification refuses.                                    *)
BuiltIsAccepted == verdict = "refused" => damaged > 0

(* What was built is accepted, what was damaged is refused, and the same    *)
(* files make the same archive (repro_bundle.py).                           *)
BundleIsReproducible ==
    /\ SameFilesSameArchive
    /\ DamageIsFound
    /\ BuiltIsAccepted
=============================================================================
