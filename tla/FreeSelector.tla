----------------------------- MODULE FreeSelector -----------------------------
(***************************************************************************)
(* The choice of a free model: the gates a catalog record has to pass, the *)
(* registry of what is compatible, the producer that a review excludes.    *)
(***************************************************************************)
EXTENDS Sequences, SequencesExt

CONSTANTS
    Models,    \* model identities
    Registry,  \* compatibilityStatus() of each: "current", "stale" or "unknown"
    None

\* What qualifyModel() asks of a record, of the catalog or of the preflight.
Gates == {"exact free id", "zero pricing", "context length", "text to text", "tools",
          "provider context", "not expired"}

QualifyModel(record) == Gates \subseteq record.passes

\* catalogUrl() and the overrides go by the role.
RoleForPhase(phase, target) ==
    CASE phase = "review" /\ target = "plan" -> "plan-review"
      [] phase = "general" -> "readonly"
      [] OTHER -> phase

Eligible(record, excluded) == QualifyModel(record) /\ record.id \notin excluded

OverrideError(record, excluded) ==
    CASE ~Eligible(record, excluded) -> "NO_VERIFIED_FREE_MODEL"
      [] Registry[record.id] = "unknown" -> "CODEX_COMPATIBILITY_UNKNOWN"
      [] Registry[record.id] = "stale" -> "CODEX_COMPATIBILITY_STALE"
      [] OTHER -> None

Chosen(model) == [model |-> model, error |-> None]
NotChosen(code) == [model |-> None, error |-> code]

\* Only the model of an override is considered, if there is one; else the
\* first of the catalog that is eligible and currently compatible.
SelectFirstCompatibleEligible(catalog, excluded, override) ==
    LET named == {i \in DOMAIN catalog : catalog[i].id = override}
        current == {i \in DOMAIN catalog : /\ Eligible(catalog[i], excluded)
                                           /\ Registry[catalog[i].id] = "current"}
    IN IF override # None
       THEN IF named = {} THEN NotChosen("NO_VERIFIED_FREE_MODEL")
            ELSE LET error == OverrideError(catalog[Min(named)], excluded)
                 IN IF error = None THEN Chosen(override) ELSE NotChosen(error)
       ELSE IF current = {} THEN NotChosen("NO_CURRENT_COMPATIBLE_FREE_MODEL")
       ELSE Chosen(catalog[Min(current)].id)

\* fetchCatalog(): every identity once.
WellFormedCatalog(catalog) ==
    /\ catalog \in Seq([id : Models, passes : SUBSET Gates])
    /\ \A i, j \in DOMAIN catalog : catalog[i].id = catalog[j].id => i = j
===============================================================================
