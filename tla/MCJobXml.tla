------------------------------ MODULE MCJobXml -------------------------------
(* Calls for JobXml.  combine_extract.awk and filter.awk get two job files    *)
(* with a head, a notify block or none, before or behind the whiteboard line, *)
(* and up to two recipe sets; awk.awk gets a task file of up to two lines and *)
(* a job of up to three lines with elements closed properly or not.           *)
EXTENDS JobXml

Notify == <<{"notify"}, {"/notify"}>>
Heads == {<<{"job"}, {"whiteboard"}>>,
          <<{"job"}>> \o Notify \o <<{"whiteboard"}>>,
          <<{"job"}, {"whiteboard"}>> \o Notify,
          <<{"job"}, {"notify", "/notify"}, {"whiteboard"}>>}
Sets  == {<<{"recipeSet"}, {}, {"/recipeSet"}>>,
          <<{"recipeSet"}, {"debug"}, {"/recipeSet"}>>,
          <<{"recipeSet"}, {"debug", "/recipeSet"}>>,
          <<{"recipeSet", "/recipeSet"}>>}
Bodies == {<<>>} \cup Sets \cup {s1 \o s2 : s1, s2 \in Sets}
Jobs   == {h \o b \o <<{}>> : h \in Heads, b \in Bodies}
Pairs  == {<<f, g>> : f, g \in Jobs}

F(v) == <<"fetch_url", v>>
E(v) == <<"equation", v>>
W(v) == <<"word", v>>
TaskLines == {<<>>, <<W("a")>>, <<F("a"), W("a")>>, <<E("a"), W("b")>>,
              <<F("a"), E("a"), F("b"), E("b"), W("a")>>, <<F("b"), E("a")>>}
UpTo(n, S) == UNION {[1 .. m -> S] : m \in 0 .. n}
Recipes    == UpTo(3, SUBSET {"tag", "/tag"}) \ {<<>>}

MCValues == {"a", "b"}
MCCalls ==
  [program : {"combine"}, files : Pairs, t_pos : {0, 1}, taskfile : {<<>>}]
    \cup [program : {"filter"}, files : Pairs, t_pos : {0}, taskfile : {<<>>}]
    \cup [program : {"insert"}, files : {<<r>> : r \in Recipes}, t_pos : {0},
          taskfile : UpTo(2, TaskLines) \cup {Missing}]
==============================================================================
