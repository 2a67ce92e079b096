------------------------------ MODULE MCStartup ------------------------------
(* Configurations, servers, directories and events for the run of Startup. *)
EXTENDS Startup

CONSTANTS a, b

Glob(S) == [glob |-> TRUE, names |-> S]
Config(nntp, inbox) ==
  [sections |-> Modes,
   read_lists |-> [m \in Modes |-> IF m = "nntp" THEN nntp ELSE inbox]]

MCConfigs == {
  Config(None, None),
  Config(<<Star>>, <<Exact(a)>>),
  Config(<<Glob({}), Glob({a}), Glob({a, b})>>, <<Star>>),
  Config(<<Exact(b), Exact(b), Star, Exact(b)>>, None),
  [Config(<<Exact(b), Star>>, None) EXCEPT !.sections = {"nntp"}]}

MCServers == {{}, {a, b}}

Plain(all, self) == Layout(FALSE, <<>>, all, FALSE, {}, self)
V2(epochs, all, hasAlternates) ==
  Layout(TRUE, epochs, all, hasAlternates, {}, Absent)

MCLayouts == {
  Plain(Absent, Absent), Plain(Cloned, Absent), Plain(Fresh, Cloned),
  V2(<<>>, Absent, FALSE), V2(<<Fresh>>, Hollow, FALSE),
  V2(<<Cloned, Fresh>>, Fresh, TRUE), V2(<<Damaged>>, Fresh, TRUE),
  V2(<<Damaged, Cloned>>, Absent, FALSE), V2(<<>>, Cloned, TRUE),
  V2(<<Hollow>>, Cloned, FALSE)}

MCMirrors == {
  [n \in ListNames |-> Plain(Cloned, Absent)],
  [n \in ListNames |-> IF n = a THEN V2(<<Fresh>>, Hollow, FALSE)
                       ELSE V2(<<Damaged, Cloned>>, Absent, FALSE)]}

Few == [e \in Events |-> IF e = "start" THEN 2 ELSE 1]
=============================================================================
