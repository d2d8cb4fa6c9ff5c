------------------------------ MODULE Recovery ------------------------------
(***************************************************************************)
(* What of an overview and of a diagnostic report calls for an automatic   *)
(* refresh.  A provider of an overview has an id, the domain its headline  *)
(* is about, a freshness, the category of its failure and its domains,     *)
(* each with an id, a freshness and a category of its own.  A diagnostic   *)
(* is about a provider or one domain of it and has a category.  What a     *)
(* signature is made of never tells when something succeeded last.         *)
(***************************************************************************)

Absent == "absent"          \* no domain of its own
Inherited == "inherited"    \* a domain says nothing of its own

Refreshed == {"stale", "timeout", "unavailable"}
Managed == Refreshed \cup {"rate-limited"}

IsRateLimited(x) == x.category = "rate-limited"

\* A rate limit is of the domain it is said of, or else of the provider.
Limits(providers, report) ==
    {<<x.provider, x.domain>> : x \in {y \in report : IsRateLimited(y)}}
    \cup {<<p.id, p.summary>> : p \in {q \in providers : IsRateLimited(q)}}
    \cup UNION {{<<p.id, d.id>> : d \in {e \in p.domains : IsRateLimited(e)}} : p \in providers}

IsLimited(limits, provider, domain) ==
    {<<provider, Absent>>, <<provider, domain>>} \cap limits # {}

\* What a provider or a domain of it says of itself, when it is not rate-limited.
Sources(scope, limited, freshness, category) ==
    IF limited
    THEN {}
    ELSE {<<scope, "freshness", f>> : f \in {freshness} \cap {"stale", "unavailable"}}
         \cup {<<scope, "health", c>> : c \in {category} \cap Refreshed}

OrElse(own, inherited) == IF own = Inherited THEN inherited ELSE own

ProviderSources(p, limits) ==
    Sources(<<p.id>>, IsLimited(limits, p.id, p.summary), p.freshness, p.category)

DomainSources(p, d, limits) ==
    LET category == OrElse(d.category, p.category)
    IN  Sources(<<p.id, d.id>>,
                IsLimited(limits, p.id, d.id) \/ category = "rate-limited",
                OrElse(d.freshness, p.freshness), category)

DiagnosticSources(report, limits) ==
    {<<<<x.id, x.domain>>, "diagnostic", x.category>> :
        x \in {y \in report : /\ y.category \in Refreshed
                              /\ ~IsLimited(limits, y.provider, y.domain)}}

Signature(providers, report) ==
    LET limits == Limits(providers, report)
    IN  UNION {ProviderSources(p, limits)
               \cup UNION {DomainSources(p, d, limits) : d \in p.domains} : p \in providers}
        \cup DiagnosticSources(report, limits)
-----------------------------------------------------------------------------
(* The controller: whether its timer is armed and the last signature.       *)

Resting == [armed |-> FALSE, last |-> {}]

\* Faulty variant: the last signature is not remembered.
ScheduledAnew(controller, signature, refreshing) ==
    [armed |-> controller.armed \/ (signature # {} /\ ~refreshing), last |-> {}]

Scheduled(controller, signature, refreshing) ==
    CASE signature = {}                -> Resting
      [] signature # {} /\ controller.armed -> controller
      [] signature # {} /\ ~controller.armed /\ refreshing ->
            [controller EXCEPT !.last = signature]
      [] OTHER -> [armed |-> signature # controller.last, last |-> signature]

=============================================================================
