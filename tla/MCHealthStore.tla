--------------------------- MODULE MCHealthStore ---------------------------
(* Small instances of HealthStore for TLC.                                 *)
EXTENDS HealthStore, TLC

Form(generation, epoch, disableHealth, models) ==
    [generation |-> generation, epoch |-> epoch, disableHealth |-> disableHealth,
     models |-> models]

(* The endpoint is edited and models come and go within one health epoch.  *)
MCCatalogModels == {Form(g, 1, FALSE, ms) : g \in Generation, ms \in SUBSET Model}

(* Endpoint and models as above, the health mode switched, and the provider*)
(* disabled and enabled again.                                             *)
MCCatalogEdits ==
    {Form(g, 1, FALSE, ms) : g \in Generation, ms \in SUBSET Model}
    \cup {Form("g1", 1, TRUE, {"m1"}), Form("g1", 2, FALSE, {"m1"})}

(* At most MaxForms different compiled forms of a provider are published.  *)
MaxForms == 2
FewForms == \A p \in Provider : Cardinality(published[p]) <= MaxForms

Symmetry == Permutations(Token) \cup Permutations(Slot)

Plain(class) ==
    [class |-> class, retryAfter |-> NoRetryAfter, httpStatus |-> class # "client_canceled",
     errorPending |-> FALSE]

MCOutcomes ==
    {Plain(c) : c \in {"none", "global_immediate", "global_transient", "channel_immediate",
                       "channel_transient", "client_canceled"}}
    \cup {[Plain("channel_transient") EXCEPT !.retryAfter = 3]}

MCEditOutcomes ==
    {Plain(c) : c \in {"none", "global_immediate", "client_canceled"}}
    \cup {[Plain("channel_immediate") EXCEPT !.errorPending = TRUE]}

MCCooldowns == <<1, 2>>
MCOneCooldown == <<2>>
=============================================================================
