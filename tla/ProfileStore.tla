---------------------------- MODULE ProfileStore ----------------------------
(***************************************************************************)
(* The slicer's profile store and the readers of it: ProfileRepository     *)
(* (list, find), ProfileMaterializer (inheritance by name) and the reader  *)
(* of the preparation service (inheritance from the discovered source).    *)
(*                                                                         *)
(* A store is a record: its files, a function on <<kind, directory, stem>>,*)
(* and whether the directory of the users can be read.  A file is not      *)
(* readable ("locked"), no profile ("broken": no JSON, no object, no name) *)
(* or a profile, whose stem need not be its name.  One scan is one read.   *)
(***************************************************************************)
EXTENDS Naturals, Sequences, FiniteSets

CONSTANTS
    None,       \* Python's None
    Names,      \* the names of profiles and files, in the order of a directory
    MaxDepth    \* MAX_INHERIT_DEPTH

NameSet == {Names[i] : i \in DOMAIN Names}

ASSUME DepthAssumption == MaxDepth \in Nat
ASSUME NamesAssumption == None \notin NameSet

Kinds == {"printer", "process", "filament"}
ScanDirs == <<"system", "user", "base">>
Places ==
    LET n == Len(Names)
    IN [i \in 1..(Len(ScanDirs) * n) |-> <<ScanDirs[((i - 1) \div n) + 1], Names[((i - 1) % n) + 1]>>]

\* What a read returned: a value, or the error it raised.
Result(value) == [err |-> None, val |-> value]
Failed(error) == [err |-> error, val |-> None]
Then(result, Next(_)) == IF result.err # None THEN result ELSE Next(result.val)
InvalidProfile == Failed("invalid_profile")
OSError == Failed("OSError")

\* The reason of the first test that holds, of <<test, reason>>.
FirstReason(tests) ==
    LET holding == {i \in DOMAIN tests : tests[i][1]}
    IN IF holding = {} THEN None ELSE tests[CHOOSE i \in holding : \A j \in holding : i <= j][2]

Value(keys, key) == IF key \in DOMAIN keys THEN keys[key] ELSE None
CompatiblePrinters(keys) ==
    IF Value(keys, "compatible_printers") = None THEN {} ELSE keys["compatible_printers"]

ParseProfile(doc, dir) ==
    [name |-> doc.name, source |-> IF dir = "system" THEN "system" ELSE "user",
     id |-> doc.id, inherits |-> doc.inherits, keys |-> doc.keys,
     model |-> Value(doc.keys, "printer_model"), compatible |-> CompatiblePrinters(doc.keys),
     materialized |-> FALSE]

\* The scan reads every file of the kind: one that cannot be read fails it.
ListProfiles(store, kind) ==
    LET File(p) == <<kind, p[1], p[2]>>
        present == SelectSeq(Places, LAMBDA p : File(p) \in DOMAIN store.files)
        parsed == SelectSeq(present, LAMBDA p : store.files[File(p)].form # "broken")
    IN CASE ~store.usersReadable -> OSError
         [] \E i \in DOMAIN present : store.files[File(present[i])].form = "locked" -> InvalidProfile
         [] OTHER -> Result([i \in DOMAIN parsed |-> ParseProfile(store.files[File(parsed[i])], parsed[i][1])])

\* By the name of the file; the last directory that has it decides.
FindSource(store, kind, name) ==
    LET having == {i \in DOMAIN ScanDirs : <<kind, ScanDirs[i], name>> \in DOMAIN store.files}
        last == CHOOSE i \in having : \A j \in having : j <= i
        doc == store.files[<<kind, ScanDirs[last], name>>]
    IN CASE ~store.usersReadable -> OSError
         [] having = {} -> Result(None)
         [] having # {} /\ doc.form = "locked" -> InvalidProfile
         [] having # {} /\ doc.form = "broken" -> Result(None)
         [] OTHER -> Result(ParseProfile(doc, ScanDirs[last]))

-----------------------------------------------------------------------------
(* Materialization by name *)

\* A view on the store that resolves the name of root to root itself.
FindIn(store, kind, root, name) ==
    IF root # None /\ name = root.name THEN Result(root) ELSE FindSource(store, kind, name)

\* The chain of every name, of those of the parents one generation up.  A
\* parent that is not there is no error: the chain begins below it.
Chains(store, kind, root, up) ==
    [n \in NameSet |-> Then(FindIn(store, kind, root, n), LAMBDA doc :
        IF doc = None THEN Result(<<>>)
        ELSE IF doc.inherits = None THEN Result(<<doc>>)
        ELSE Then(up[doc.inherits], LAMBDA above : Result(Append(above, doc))))]

\* Mutant: inheritance that is too deep ends the chain in place of the request.
ChainCut(store, kind, root, name) ==
    LET chain[depth \in 0..(MaxDepth + 1)] ==
            IF depth > MaxDepth THEN [n \in NameSet |-> Result(<<>>)]
            ELSE Chains(store, kind, root, chain[depth + 1])
    IN chain[0][name]

\* The documents of the chain, the base first.
ResolveChain(store, kind, root, name) ==
    LET chain[depth \in 0..(MaxDepth + 1)] ==
            IF depth > MaxDepth THEN [n \in NameSet |-> InvalidProfile]
            ELSE Chains(store, kind, root, chain[depth + 1])
    IN chain[0][name]

\* A key has the value the most derived document gives it.
Merged(chain) ==
    [key \in UNION {DOMAIN chain[i].keys : i \in DOMAIN chain} |->
        LET giving == {i \in DOMAIN chain : key \in DOMAIN chain[i].keys}
        IN chain[CHOOSE i \in giving : \A j \in giving : j <= i].keys[key]]

\* The most derived document with a printer model names the machine.
MachineIdentity(chain) ==
    LET machines == {i \in DOMAIN chain : Value(chain[i].keys, "printer_model") # None}
    IN IF machines = {} THEN chain[Len(chain)].name
       ELSE chain[CHOOSE i \in machines : \A j \in machines : j <= i].name

\* The profile of a chain's keys; a printer has the name of its machine.
Resolved(kind, profile, chain, keys) ==
    [name |-> IF kind = "printer" THEN MachineIdentity(chain) ELSE profile.name,
     source |-> "generated", id |-> profile.id, inherits |-> None, keys |-> keys,
     model |-> Value(keys, "printer_model"), compatible |-> CompatiblePrinters(keys), materialized |-> TRUE]

\* Mutant: a profile that is materialized already is read again.
MaterializeAgain(store, kind, root, profile) ==
    Then(ResolveChain(store, kind, root, profile.name), LAMBDA chain :
        IF chain = <<>> THEN InvalidProfile ELSE Result(Resolved(kind, profile, chain, Merged(chain))))

Materialize(store, kind, root, profile) ==
    IF profile.materialized THEN Result(profile)
    ELSE Then(ResolveChain(store, kind, root, profile.name), LAMBDA chain :
            IF chain = <<>> THEN InvalidProfile ELSE Result(Resolved(kind, profile, chain, Merged(chain))))

MaterializeExact(store, kind, profile) == Materialize(store, kind, profile, profile)

\* The adapters resolve every name of the chain in the store, the preparation
\* service pins the document found.
FindProfile(store, kind, name, pinned) ==
    Then(FindSource(store, kind, name), LAMBDA source :
        IF source = None THEN Result(None)
        ELSE Materialize(store, kind, IF pinned THEN source ELSE None, source))

-----------------------------------------------------------------------------
(* Materialization of the discovered source *)

\* Parents come from a listing, of the child's source or the system's, and
\* have to be there.
Ancestry(listed, profile) ==
    LET Parents(child) ==
            {i \in DOMAIN listed : /\ listed[i].name = child.inherits
                                   /\ listed[i].source \in {child.source, "system"}}
        chain[depth \in 0..(MaxDepth + 1), child \in {profile} \cup {listed[i] : i \in DOMAIN listed}] ==
            IF depth > MaxDepth THEN Failed("slicer_error")
            ELSE IF child.inherits = None THEN Result(<<child>>)
            ELSE IF Parents(child) = {} THEN Failed("slicer_error")
            ELSE Then(chain[depth + 1, listed[CHOOSE i \in Parents(child) : \A j \in Parents(child) : i <= j]],
                      LAMBDA up : Result(Append(up, child)))
    IN chain[0, profile]

MergeExact(store, kind, profile) ==
    IF profile.inherits = None THEN Result(<<profile>>)
    ELSE Then(ListProfiles(store, kind), LAMBDA listed : Ancestry(listed, profile))

\* Beside the merged keys the profile keeps its own name, model and printers.
MaterializeProfile(store, kind, profile) ==
    IF profile.materialized THEN Result(profile)
    ELSE Then(MergeExact(store, kind, profile), LAMBDA chain :
            Result([profile EXCEPT !.source = "generated", !.inherits = None,
                                   !.keys = Merged(chain), !.materialized = TRUE]))

=============================================================================
