----------------------------- MODULE MCGathering -----------------------------
(* Small instance: directories that declare a chain, a diamond, cycles, a service *)
(* twice, a service without a manifest, and nothing, with files that are skipped *)
(* or broken among them; one alert, breach or verdict at a time.                 *)
EXTENDS Gathering

M(n, ds) == [kind |-> "manifest", name |-> n, dependencies |-> ds]
Skip == [kind |-> "skipped", name |-> "a", dependencies |-> {}]
Broken == [kind |-> "broken", name |-> "a", dependencies |-> {}]

MCServices == {"a", "b", "c", "d"}
MCDirectories == {
  <<>>,
  <<M("a", {"b"}), M("b", {"c"}), Skip, M("c", {"d"})>>,
  <<M("a", {"b", "c"}), M("b", {"d"}), M("c", {"d"}), M("d", {})>>,
  <<M("a", {"b"}), M("b", {"c", "d"}), M("c", {"a"}), M("d", {"d"})>>,
  <<M("b", {"c"}), M("a", {"b"}), M("b", {"d"}), M("c", {"b"})>>,
  <<M("a", {"b"}), Broken>>}

A(s, f, r) == {[service |-> s, firing |-> f, recent |-> r]}
MCAlertAnswers == {A("a", TRUE, FALSE), A("b", TRUE, TRUE), A("b", FALSE, TRUE)}
V(s, r) == [service |-> s, recent |-> r]
MCVerdictLists == {<<V("c", TRUE)>>, <<V("d", FALSE), V("a", TRUE)>>}
MCCallSets ==
  {{<<"a", "b">>, <<"b", "c">>, <<"c", "d">>},
   {<<"a", "a">>, <<"b", "a">>, <<"b", "d">>},
   {<<"d", "b">>, <<"b", "c">>, <<"b", "d">>, <<"c", "b">>}}
=============================================================================
