----------------------------- MODULE OperatorOps -----------------------------
(***************************************************************************)
(* What the operator's settings hold and what one change does to them      *)
(* (internal/policy/operator.go, internal/policy/grants.go and the         *)
(* mutations in cmd/guardrail).  The settings are the operator config      *)
(* (waivers.toml) and one overlay (guardrail.toml) per repository.         *)
(***************************************************************************)
EXTENDS Integers

CONSTANTS
    Hosts,      \* web hosts an operator may allow
    Repos,      \* repository roots
    Grants,     \* grantable (repository, rule, command) triples
    MaxUses     \* the largest use count an operator issues a grant with

ASSUME UsesAssumption == MaxUses \in Nat \ {0}

\* The content of waivers.toml.  present is FALSE while the file does not
\* exist; a grant that is spent, revoked or was never issued has 0 uses left.
Configs == [present : BOOLEAN,
            global : SUBSET Hosts,
            repo : [Repos -> SUBSET Hosts],
            uses : [Grants -> 0..MaxUses],
            research : {"", "on", "off"}]

emptyOperatorConfig == [present |-> FALSE,
                        global |-> {},
                        repo |-> [r \in Repos |-> {}],
                        uses |-> [k \in Grants |-> 0],
                        research |-> ""]

Overlays == [Repos -> SUBSET Hosts]
NoOverlay == [r \in Repos |-> {}]

\* One change to the settings, as its caller asks for it.  live says whether
\* the clock a consumption was called with finds the grant unexpired.
Changes ==
    [kind : {"global"}, host : Hosts, grant : BOOLEAN]
    \cup [kind : {"repo"}, repo : Repos, host : Hosts, grant : BOOLEAN]
    \cup [kind : {"issue"}, key : Grants, uses : 1..MaxUses]
    \cup [kind : {"revoke"}, key : Grants]
    \cup [kind : {"consume"}, key : Grants, live : BOOLEAN]
    \cup [kind : {"research"}, mode : {"on", "off"}]
    \cup [kind : {"default"}, mode : {"off"}]

updateHost(hosts, host, grant) ==
    IF grant THEN hosts \cup {host} ELSE hosts \ {host}

\* Mutant: a consumption trusts the decision made before the lock.
SpendsUnchecked(c, ch) == ch.kind = "consume" /\ ch.live

\* A consumption re-checks the grant it was called for before it spends.
Spends(c, ch) == ch.kind = "consume" /\ ch.live /\ c.uses[ch.key] > 0

\* What an issuance, a revocation or a consumption leaves of the grants.
UsesAfter(c, ch) ==
    IF ch.kind = "issue" THEN [c.uses EXCEPT ![ch.key] = ch.uses]
    ELSE IF ch.kind = "revoke" THEN [c.uses EXCEPT ![ch.key] = 0]
    ELSE IF Spends(c, ch) THEN [c.uses EXCEPT ![ch.key] = @ - 1]
    ELSE c.uses

\* The config a change writes, computed from the config it loaded.
ConfigAfter(c, ch) ==
    [present |-> TRUE,
     global |-> IF ch.kind = "global" THEN updateHost(c.global, ch.host, ch.grant)
                ELSE c.global,
     repo |-> IF ch.kind = "repo"
              THEN [c.repo EXCEPT ![ch.repo] = updateHost(@, ch.host, ch.grant)]
              ELSE c.repo,
     uses |-> UsesAfter(c, ch),
     research |-> IF ch.kind \in {"research", "default"} THEN ch.mode
                  ELSE c.research]

\* The overlays after a change: only a repository host reaches one.
OverlayAfter(o, ch) ==
    IF ch.kind = "repo"
    THEN [o EXCEPT ![ch.repo] = updateHost(@, ch.host, ch.grant)]
    ELSE o
=============================================================================
