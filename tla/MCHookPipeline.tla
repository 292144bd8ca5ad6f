--------------------------- MODULE MCHookPipeline ---------------------------
EXTENDS HookPipeline, TLC
CONSTANTS h1, h2, h3, d1, d2, o1, o2

Call(plane, event, key, dec, rule, sig, granted, host) ==
    [plane |-> plane, event |-> event, key |-> key, eval |-> Verdict(dec, rule),
     sig |-> sig, granted |-> granted, host |-> host]

Private == Call("claude", "pre", d1, "allow", "", {"private"}, "-", FALSE)
Net     == Call("claude", "pre", d2, "allow", "", {"net"}, "-", FALSE)
OpNet   == Call("opencode", "pre", d2, "allow", "", {"net"}, "-", FALSE)
Denied  == Call("codex", "pre", d1, "deny", "hard", {}, "hard", FALSE)
Outward == Call("opencode", "pre", d1, "ask", "outward", {}, "outward", FALSE)
Codex   == Call("codex", "pre", d1, "ask", "soft", {}, "-", FALSE)
Backstop == Call("codex", "pre", d1, "ask", "backstop", {}, "backstop", FALSE)
Retry   == Call("opencode", "pre", d1, "ask", "soft", {}, "-", FALSE)
Host    == Call("opencode", "pre", d1, "ask", "soft", {}, "-", TRUE)
Granted == Call("claude", "pre", d2, "ask", "soft", {}, "soft", FALSE)
Other   == Call("opencode", "pre", d2, "ask", "soft", {}, "-", FALSE)
Post    == Call("opencode", "post", d2, "allow", "", {}, "-", FALSE)
Silent  == Call("antigravity", "post", d2, "deny", "hard", {}, "-", FALSE)
Nameless == Call("opencode", "pre", d1, "ask", "", {}, "-", FALSE)
NamelessHost == Call("opencode", "pre", d1, "ask", "", {}, "-", TRUE)
Stop    == Call("claude", "completion", d1, "allow", "", {}, "-", FALSE)

\* The three calls in every assignment to the hooks.
Mix(a, b, c, e) ==
    LET calls == (h1 :> a) @@ (h2 :> b) @@ (h3 :> c)
    IN  {[calls |-> [p \in Hooks |-> calls[pi[p]]], env |-> e] : pi \in Permutations(Hooks)}

MCMixes == UNION
    { Mix(Private, Net, Post, {}),
      Mix(Private, OpNet, Granted, {}),
      Mix(Outward, Retry, Denied, {"night"}),
      Mix(Retry, Retry, Retry, {"lapse"}),
      Mix(Retry, Other, Host, {"lapse"}),
      Mix(Granted, Granted, Backstop, {}),
      Mix(Codex, Codex, Codex, {o1, "lapse"}),
      Mix(Codex, Codex, Denied, {o1, o2}),
      Mix(Retry, Nameless, NamelessHost, {}),
      Mix(Retry, Retry, Nameless, {}),
      Mix(Stop, Stop, Silent, {"edit"}) }

Symm == Permutations(Hooks) \cup Permutations(Recs)

MCPassing == <<{0, 2}, {1, 2}>>
=============================================================================
