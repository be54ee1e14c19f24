--------------------------- MODULE TaskClassifier ---------------------------
(***************************************************************************)
(* task_classifier.py: how the parsed answer of the helper model becomes   *)
(* the classification the preflights read.  A classification is the set of *)
(* intents that are true (or non-empty) in it, the text of the task is the *)
(* set of marks the regular expressions and word lists find in it.         *)
(***************************************************************************)

Intents == {"override",     \* system_override_attempt
            "mutation",     \* raw_file_mutation_intent
            "tmp_path",     \* tmp_cleanup_path starts with /tmp/
            "checkout", "discount", "contact",
            "basket_id",    \* explicit_basket_id
            "selector",     \* basket_selector is newest or oldest
            "staff"}        \* staff_role_count_intent with a role

Marks == {"hard_override",  \* hard_system_override_attempt
          "action_word",    \* checkout, refund, recover, discount, contact, ...
          "shortcut",       \* STORE_FLOOR_CHECKOUT_SHORTCUT_RE
          "dispatch",       \* names a dispatch wave manifest
          "date",           \* asks for a relative date in a known format
          "refund", "city", "fraud_history",
          "no_mutation",    \* NO_MUTATION_RE
          "file_mutation"}  \* EXPLICIT_FILE_MUTATION_RE

Protected == {"checkout", "discount", "contact"}

\* The classifier failed, timed out or returned nothing.
EmptyClassification == {}

RequiresOverrideDenial(parsed, text) ==
    \/ parsed \cap (Protected \cup {"mutation"}) # {}
    \/ "action_word" \in text

BoundedCleanup(parsed) == /\ {"mutation", "tmp_path"} \subseteq parsed
                          /\ parsed \cap Protected = {}

StoreFloorShortcut(parsed, text) == /\ {"checkout", "basket_id"} \subseteq parsed
                                    /\ "shortcut" \in text

KeepsOverride(parsed, text) ==
    /\ ~BoundedCleanup(parsed)
    /\ RequiresOverrideDenial(parsed, text)
    /\ \/ "hard_override" \in text
       \/ "override" \in parsed /\ ~StoreFloorShortcut(parsed, text)

\* Normalization only ever decides the override flag.
Normalize(parsed, text) ==
    IF KeepsOverride(parsed, text) THEN parsed \cup {"override"}
                                   ELSE parsed \ {"override"}

\* runtime_mutation_guard: raw_file_mutation_allowed.
RawMutationAllowed(text, classification) ==
    /\ "no_mutation" \notin text
    /\ "mutation" \in classification \/ "file_mutation" \in text
=============================================================================
