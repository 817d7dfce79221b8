------------------------------ MODULE MCConfig ------------------------------
EXTENDS ConfigStore, TLC

MCFold == [n \in {"web", "WEB", "lab", "env", "connect", "home", "p1", "p2", "night", "dawn"} |->
              IF n = "WEB" THEN "web" ELSE n]

Net(b, l) == [base |-> b, len |-> l]

Rule(n, v, nets) == [name |-> n, via |-> v, ranges |-> nets, domains |-> {}, apps |-> {}]

Web    == [Rule("web", "p1", {Net(0, 1), Net(2, 2)}) EXCEPT
              !.domains = {[wild |-> TRUE, labels |-> <<"corp">>]}]
Lab    == [Rule("lab", "p2", {Net(0, 2), Net(2, 2)}) EXCEPT
              !.domains = {[wild |-> TRUE, labels |-> <<"git", "corp">>]}, !.apps = {"git"}]
Window == [name |-> "night", profiles |-> {"p2"}]

MCInitial ==
    [vpns     |-> [p \in {"p1", "p2"} |-> [priority |-> 0, kill |-> "inherit",
                      held |-> IF p = "p1" THEN {"username", "password"} ELSE {}]],
     policies |-> <<Web>>,
     groups   |-> [g \in {"connect"} |-> {"p1"}],
     schedule |-> <<Window>>,
     kill |-> TRUE, dns |-> FALSE, mode |-> "$MODE"]

\* A policy whose name is a variable's: it holds the name of another policy.
Env == Rule("env", "p1", {Net(0, 2)})
MCRulesWithVars == [rule \in {Env} |-> [rule EXCEPT !.name = "web"]]
MCModesWithVars == [mode \in {"$MODE"} |-> "loose"]

MCOperations == {
    [kind |-> "create policy", rule |-> Lab],
    [kind |-> "create policy", rule |-> Env],
    [kind |-> "update policy", name |-> "web", rule |-> Rule("WEB", "p2", {Net(0, 1)})],
    [kind |-> "delete policy", name |-> "WEB"],
    [kind |-> "create group", name |-> "home", profiles |-> {"p2"}],
    [kind |-> "update group", name |-> "connect", profiles |-> {"p2"}],
    [kind |-> "update group", name |-> "home", profiles |-> {"p1"}],
    [kind |-> "delete group", name |-> "connect"],
    [kind |-> "create vpn", name |-> "p2", priority |-> 0, gives |-> {"password"}, secret |-> "s2"],
    [kind |-> "update vpn", name |-> "p1", priority |-> 0, gives |-> {"username", "password"}, secret |-> "s2"],
    [kind |-> "update vpn", name |-> "p2", priority |-> 3, gives |-> {"password"}, secret |-> "s1"],
    [kind |-> "delete vpn", name |-> "p1"],
    [kind |-> "delete vpn", name |-> "p2"],
    [kind |-> "override", name |-> "p2", override |-> "off"],
    [kind |-> "create rule", rule |-> [name |-> "dawn", profiles |-> {"p1"}]],
    [kind |-> "update rule", name |-> "night", rule |-> [name |-> "night", profiles |-> {"p1"}]],
    [kind |-> "delete rule", name |-> "night"],
    [kind |-> "kill switch", enabled |-> FALSE],
    [kind |-> "dns guard", enabled |-> TRUE],
    [kind |-> "settings", mode |-> ""],
    [kind |-> "reload"],
    [kind |-> "reload tunnel"] }

\* One edit that the loader accepts, an empty domain and all, and one that names
\* no profile.
MCHandEdits == {[policies |-> <<[Lab EXCEPT !.domains = @ \cup {[wild |-> FALSE, labels |-> << >>]}], Web>>,
                 kill |-> FALSE, mode |-> "loose"],
                [policies |-> <<Rule("lab", "p3", {Net(0, 1)})>>, kill |-> TRUE, mode |-> ""]}

\* A URL of a host, a host in capitals, an address with its port, a slash.
MCHosts == {<<"corp">>, <<"git", "corp">>, <<"a", "git", "corp">>,
            <<"https:", "a", "git", "corp">>, <<"GIT", "corp">>, <<"2:443">>, <<"/">>}

Text(labels) == [ip |-> FALSE, is |-> labels]
MCNormal == (Text(<<"https:", "a", "git", "corp">>) :> Text(<<"a", "git", "corp">>))
         @@ (Text(<<"GIT", "corp">>) :> Text(<<"git", "corp">>))
         @@ (Text(<<"2:443">>) :> [ip |-> TRUE, is |-> 2])
         @@ (Text(<<"/">>) :> Text(<< >>))

MCSnapshots == {<< >>, Net(1, 2) :> "p2", (Net(1, 2) :> "p1") @@ (Net(2, 2) :> "p2")}

Symmetry == Permutations(Requests)
=============================================================================
