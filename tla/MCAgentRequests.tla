-------------------------- MODULE MCAgentRequests ---------------------------
(* Two pushes, one of a stranger and one with the token from a node with   *)
(* the tag, and a scrape or a clear; three labels and two families.        *)
EXTENDS AgentRequests

CONSTANTS p1, p2, other, token, tag, f, g, name

L(label) == [label |-> label, value |-> "1"]
Straight == <<L("job"), L("x"), L("y")>>
Swapped == <<L("job"), L("y"), L("x")>>
Twice == <<L("job"), L("x"), L("x")>>

Asked(m, path, fs) == [method |-> m, name |-> name, path |-> path, families |-> fs]
MCAsks == [r \in Requests |->
    CASE r = p1 -> {Asked("PUT", Straight, {f}), Asked("POST", Straight, {g}),
                    Asked("PUT", Twice, {f})}
      [] r = p2 -> {Asked("PUT", Swapped, {f, g}), Asked("DELETE", Swapped, {}),
                    Asked("POST", Straight, Unparsable)}
      [] r = other -> {Asked("GET", <<>>, {}), Asked("clear", <<>>, {})}]

MCCredential == [r \in Requests |-> IF r = p2 THEN token ELSE Nothing]
MCTagsOf == [r \in Requests |-> IF r = p2 THEN {tag} ELSE {}]
Setting(t, tags, any) == [token |-> t, tags |-> tags, anonymous |-> any]
MCSettings == {Setting(Nothing, {tag}, FALSE), Setting(Nothing, {tag}, TRUE),
               Setting(token, {}, FALSE)}
=============================================================================
