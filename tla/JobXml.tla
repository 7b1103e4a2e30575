------------------------------- MODULE JobXml --------------------------------
(***************************************************************************)
(* sh/awk: three programs over the lines of job files.                     *)
(* combine_extract.awk makes one job of several: the head of the first and *)
(* the recipe set at position t_pos of each.  filter.awk drops the recipe  *)
(* sets of a debug variant.  awk.awk puts a task for each line of a task   *)
(* file into every recipe.  A line is the set of the patterns it matches,  *)
(* as the rules and conditions test them; what else it says is abstracted. *)
(***************************************************************************)
EXTENDS Naturals, Sequences, SequencesExt

CONSTANTS
  Calls,      \* the calls of the programs
  Values,     \* what the pieces of a task file's lines say
  Missing     \* a task file that cannot be read

\* "tag" and "/tag": the line begins, or ends, an element of the kind e_tag.
Pattern == {"job", "whiteboard", "notify", "/notify", "recipeSet", "/recipeSet",
            "debug", "tag", "/tag"}

\* split with "\" " makes these of a line: the URL of a repository, an
\* equation, or a word.
Piece == {"fetch_url", "equation", "word"} \X Values

ASSUME CallAssumption ==
  /\ Calls \subseteq [program : {"combine", "filter", "insert"},
                     files : Seq(Seq(SUBSET Pattern) \ {<<>>}) \ {<<>>},
                     t_pos : Nat,      \* 0 if it is not set
                     taskfile : Seq(Seq(Piece)) \cup {Missing}]
  /\ Missing \notin Seq(Seq(Piece))

VARIABLES
  program,         \* "combine", "filter" or "insert"
  files, t_pos,    \* what it is called with
  taskfile,
  pc,              \* reading the task file, the main loop, the getline loop, the end
  at,              \* file and line of the current record
  inside,          \* the range rules that are open, named by their first pattern
  seen,            \* job_start, white_board and mail_cc, as the set of those at 1
  curr_pos,
  stage, debug,    \* filter.awk's variables
  s, param_content, giturl,  \* awk.awk's piece, and what the line has said so far
  tasks,           \* its task_content
  out              \* the lines printed, each as its file and line; task i is <<0, i>>

input  == <<program, files, t_pos, taskfile>>
cvars  == <<inside, seen, curr_pos>>
fvars  == <<stage, debug>>
tvars  == <<s, param_content, giturl, tasks>>
jobVars == <<input, pc, at, cvars, fvars, tvars, out>>

JobInit ==
  /\ \E c \in Calls : /\ program = c.program /\ files = c.files
                      /\ t_pos = c.t_pos /\ taskfile = c.taskfile
  /\ pc = IF program = "insert" THEN "taskfile" ELSE "main"
  /\ at = <<1, 1>> /\ inside = {} /\ seen = {} /\ curr_pos = 0
  /\ stage = <<>> /\ debug = FALSE /\ out = <<>>
  /\ s = 1 /\ param_content = <<>> /\ giturl = <<>> /\ tasks = <<>>
-----------------------------------------------------------------------------
(* awk's records *)

Eof       == at[1] > Len(files)
LineAt(c) == files[c[1]][c[2]]
Line      == LineAt(at)
NextFile  == <<at[1] + 1, 1>>
NextLine  == IF at[2] < Len(files[at[1]]) THEN <<at[1], at[2] + 1>> ELSE NextFile

\* The range rule /first/, /last/ matches the record; and stays open after it.
Matches(first)    == first \in inside \/ first \in Line
Open(first, last) == IF Matches(first) /\ last \notin Line THEN {first} ELSE {}

Main(p) == program = p /\ pc = "main" /\ ~ Eof /\ UNCHANGED input
-----------------------------------------------------------------------------
(* combine_extract.awk *)

HeadOpen == (inside \ {"job"}) \cup Open("job", "whiteboard")

\* The flags keep the lines of a second head out.
PrintOnce(p) ==
  /\ p \in Line \ seen /\ seen' = seen \cup {p}
  /\ out' = Append(out, at) /\ UNCHANGED pc

\* The rule for the head: its two lines are printed once, and a notify block
\* is copied by a loop of getline, which advances without testing the rules.
HeadRule ==
  /\ Main("combine") /\ Matches("job")
  /\ \/ PrintOnce("job")
     \/ "job" \notin Line \ seen /\ PrintOnce("whiteboard")
     \/ /\ Line \cap {"job", "whiteboard"} \subseteq seen
        /\ "notify" \in Line \ seen
        /\ pc' = "getline" /\ out' = Append(out, at) /\ UNCHANGED seen
     \/ /\ (Line \cap {"job", "whiteboard", "notify"}) \subseteq seen
        /\ UNCHANGED <<pc, out, seen>>
  /\ inside' = HeadOpen /\ at' = NextLine
  /\ UNCHANGED <<curr_pos, fvars, tvars>>

\* Mutant: the line read before the loop is not tested.
GetlineUntested ==
  /\ pc = "getline" /\ ~ Eof
  /\ out' = Append(out, at) /\ at' = NextLine
  /\ IF "/notify" \in Line /\ "notify" \notin LineAt(Last(out))
       THEN pc' = "main" /\ seen' = seen \cup {"notify"}
       ELSE UNCHANGED <<pc, seen>>
  /\ UNCHANGED <<input, inside, curr_pos, fvars, tvars>>

\* At the end of the input getline leaves l alone: the loop does not end.
Getline ==
  /\ pc = "getline" /\ ~ Eof
  /\ out' = Append(out, at) /\ at' = NextLine
  /\ IF "/notify" \in Line THEN pc' = "main" /\ seen' = seen \cup {"notify"}
                           ELSE UNCHANGED <<pc, seen>>
  /\ UNCHANGED <<input, inside, curr_pos, fvars, tvars>>

\* What the notify rule prints of a record, and what the recipe set rule does.
Notified  == IF Matches("notify") /\ "notify" \notin seen THEN <<at>> ELSE <<>>
Selected  == IF Matches("recipeSet") /\ curr_pos = t_pos THEN <<at>> ELSE <<>>
BlockRead == IF Matches("notify") /\ "/notify" \in Line THEN {"notify"} ELSE {}
SetEnds   == Matches("recipeSet") /\ "/recipeSet" \in Line

\* Mutant: curr_pos is not reset.
BodyKeepsPos ==
  /\ Main("combine") /\ ~ Matches("job")
  /\ out' = out \o Notified \o Selected
  /\ seen' = seen \cup BlockRead
  /\ inside' = Open("notify", "/notify") \cup Open("recipeSet", "/recipeSet")
  /\ curr_pos' = IF SetEnds THEN curr_pos + 1 ELSE curr_pos
  /\ at' = IF SetEnds /\ curr_pos >= t_pos THEN NextFile ELSE NextLine
  /\ UNCHANGED <<pc, fvars, tvars>>

\* Behind the head: the position goes back to 0 only with nextfile.
Body ==
  /\ Main("combine") /\ ~ Matches("job")
  /\ out' = out \o Notified \o Selected
  /\ seen' = seen \cup BlockRead
  /\ inside' = Open("notify", "/notify") \cup Open("recipeSet", "/recipeSet")
  /\ curr_pos' = IF ~ SetEnds THEN curr_pos
                 ELSE IF curr_pos >= t_pos THEN 0 ELSE curr_pos + 1
  /\ at' = IF SetEnds /\ curr_pos >= t_pos THEN NextFile ELSE NextLine
  /\ UNCHANGED <<pc, fvars, tvars>>
-----------------------------------------------------------------------------
(* filter.awk *)

\* Mutant: debug is not cleared behind a set it has dropped.
FilterKeepsDebug ==
  /\ Main("filter") /\ at' = NextLine
  /\ inside' = Open("recipeSet", "/recipeSet")
  /\ \/ ~ Matches("recipeSet") /\ out' = Append(out, at) /\ UNCHANGED fvars
     \/ /\ Matches("recipeSet") /\ (SetEnds => "debug" \in Line)
        /\ stage' = Append(stage, at) /\ debug' = (debug \/ "debug" \in Line)
        /\ UNCHANGED out
     \/ /\ SetEnds /\ "debug" \notin Line
        /\ out' = IF debug THEN out ELSE out \o Append(stage, at)
        /\ stage' = <<>> /\ UNCHANGED debug
  /\ UNCHANGED <<pc, seen, curr_pos, tvars>>

\* A line of a set is held back until the set ends; one that matches debug
\* skips the rest of the rule, also the test for that end.
Filter ==
  /\ Main("filter") /\ at' = NextLine
  /\ inside' = Open("recipeSet", "/recipeSet")
  /\ \/ ~ Matches("recipeSet") /\ out' = Append(out, at) /\ UNCHANGED fvars
     \/ /\ Matches("recipeSet") /\ "debug" \in Line
        /\ stage' = Append(stage, at) /\ debug' = TRUE /\ UNCHANGED out
     \/ /\ Matches("recipeSet") /\ {"debug", "/recipeSet"} \cap Line = {}
        /\ stage' = Append(stage, at) /\ UNCHANGED <<debug, out>>
     \/ /\ SetEnds /\ "debug" \notin Line
        /\ out' = IF debug THEN out ELSE out \o Append(stage, at)
        /\ stage' = <<>> /\ debug' = FALSE
  /\ UNCHANGED <<pc, seen, curr_pos, tvars>>
-----------------------------------------------------------------------------
(* awk.awk: BEGIN turns the task file into tasks, with the globals            *)
(* param_content and giturl; the rules print them in front of each "/tag".    *)

Reading  == pc = "taskfile" /\ taskfile # Missing /\ UNCHANGED <<input, at, cvars, fvars, out>>
TaskLine == taskfile[Len(tasks) + 1]
TaskEof  == Len(tasks) = Len(taskfile)

\* One piece: a repository replaces the one before it, an equation is added.
ReadPiece ==
  /\ Reading /\ ~ TaskEof /\ s \in DOMAIN TaskLine
  /\ s' = s + 1
  /\ \/ /\ TaskLine[s][1] = "fetch_url" /\ giturl' = <<TaskLine[s]>>
        /\ UNCHANGED param_content
     \/ /\ TaskLine[s][1] = "equation"
        /\ param_content' = Append(param_content, TaskLine[s]) /\ UNCHANGED giturl
     \/ TaskLine[s][1] = "word" /\ UNCHANGED <<param_content, giturl>>
  /\ UNCHANGED <<pc, tasks>>

\* gettask: the last piece, whatever it is, names the task.
GetTask == [name |-> IF TaskLine = <<>> THEN <<>> ELSE <<Last(TaskLine)>>,
            params |-> param_content, git |-> giturl]

\* Mutant: giturl is not reset.
EndOfTaskKeepsUrl ==
  /\ Reading /\ ~ TaskEof /\ s > Len(TaskLine)
  /\ tasks' = Append(tasks, GetTask)
  /\ s' = 1 /\ param_content' = <<>> /\ UNCHANGED <<pc, giturl>>

EndOfTask ==
  /\ Reading /\ ~ TaskEof /\ s > Len(TaskLine)
  /\ tasks' = Append(tasks, GetTask)
  /\ s' = 1 /\ param_content' = <<>> /\ giturl' = <<>> /\ UNCHANGED pc

TaskFileRead == Reading /\ TaskEof /\ pc' = "main" /\ UNCHANGED tvars

Insert ==
  /\ Main("insert") /\ at' = NextLine
  /\ out' = (IF "/tag" \in Line THEN out \o [i \in DOMAIN tasks |-> <<0, i>>] ELSE out)
            \o <<at>>
  /\ UNCHANGED <<pc, cvars, fvars, tvars>>
-----------------------------------------------------------------------------
\* END: combine_extract.awk prints "</job>", which is no line of a file.
End ==
  /\ pc = "main" /\ Eof /\ pc' = "done"
  /\ UNCHANGED <<input, at, cvars, fvars, tvars, out>>

\* The -1 of getline counts as true: a missing task file has lines for ever.
Hangs == (pc = "getline" /\ Eof) \/ (pc = "taskfile" /\ taskfile = Missing)
Over  == (pc = "done" \/ Hangs) /\ UNCHANGED jobVars

Awk  == \/ HeadRule \/ Getline \/ Body \/ Filter
        \/ ReadPiece \/ EndOfTask \/ TaskFileRead \/ Insert \/ End
JobNext == Awk \/ Over
JobSpec == JobInit /\ [][JobNext]_jobVars /\ WF_jobVars(Awk)
-----------------------------------------------------------------------------
(* What the lines of the files mean. *)

Lines == UNION {{<<g, k>> : k \in DOMAIN files[g]} : g \in DOMAIN files}
Before(c, d) == c[1] < d[1] \/ (c[1] = d[1] /\ c[2] < d[2])
InOrder ==
  \A j, k \in DOMAIN out :
    j < k /\ out[j] \in Lines /\ out[k] \in Lines => Before(out[j], out[k])

\* Line k of file g lies in a block that "first" opens and "last" closes; and a
\* block was open in front of it.
Opened(g, k, first, last) ==
  \E i \in 1 .. k - 1 :
    first \in files[g][i] /\ \A l \in i .. k - 1 : last \notin files[g][l]
In(g, k, first, last) == first \in files[g][k] \/ Opened(g, k, first, last)

InSet(g, k)     == In(g, k, "recipeSet", "/recipeSet")
InNotify(g, k)  == In(g, k, "notify", "/notify")
SetEndsAt(g, k) == InSet(g, k) /\ "/recipeSet" \in files[g][k]

\* The position of line k's recipe set: how many sets have ended.
SetOf(g, k) == Cardinality({l \in 1 .. k - 1 : SetEndsAt(g, l)})

\* A job file: a head from its job line to its whiteboard line, one notify block
\* or none, within the head or apart from it, and the recipe sets behind both.
JobFile(f) ==
  /\ \E j, w \in DOMAIN f : j < w /\ \A k \in DOMAIN f :
       /\ "job" \in f[k] <=> k = j
       /\ "whiteboard" \in f[k] <=> k = w
       /\ f[k] \cap {"recipeSet", "/recipeSet"} # {} => k > w
  /\ \/ \A k \in DOMAIN f : f[k] \cap {"notify", "/notify"} = {}
     \/ \E n, m \in DOMAIN f : n < m /\ \A k \in DOMAIN f :
          /\ "notify" \in f[k] <=> k = n
          /\ "/notify" \in f[k] <=> k = m
          /\ k \in n .. m => f[k] \cap {"job", "whiteboard"} = {}
          /\ f[k] \cap {"recipeSet", "/recipeSet"} # {} => k > m

\* Each file is a job file and has a recipe set at the position asked for.
JobFiles ==
  \A g \in DOMAIN files : JobFile(files[g]) /\ SetOf(g, Len(files[g]) + 1) > t_pos

\* The first file with a notify block.
Notifies(g) == \E k \in DOMAIN files[g] : "notify" \in files[g][k]
Notifier(g) == Notifies(g) /\ \A h \in 1 .. g - 1 : ~ Notifies(h)

\* The combined job is the head of the first file, the first notify block, and
\* the recipe set at t_pos of each file, in the order of the files.
Combined(g, k) ==
  \/ g = 1 /\ files[g][k] \cap {"job", "whiteboard"} # {}
  \/ Notifier(g) /\ InNotify(g, k)
  \/ InSet(g, k) /\ SetOf(g, k) = t_pos
CombinesPosition ==
  program = "combine" /\ pc = "done" /\ JobFiles =>
    InOrder /\ ToSet(out) = {c \in Lines : Combined(c[1], c[2])}

\* Each notify block is closed in its file, behind the line that opens it.
BlocksClosed ==
  \A c \in Lines : "notify" \in LineAt(c) =>
    \E k \in DOMAIN files[c[1]] : k > c[2] /\ "/notify" \in files[c[1]][k]

\* combine_extract.awk ends if each notify block is closed on a later line,
\* awk.awk if the task file can be read, and filter.awk always.
ProgramEnds ==
  (program = "combine" => BlocksClosed) /\ taskfile # Missing ~> pc = "done"

\* Each recipe set ends in its file, and not on a line with the debug variant.
SetsClosed ==
  \A c \in Lines :
    /\ InSet(c[1], c[2]) =>
         \E k \in DOMAIN files[c[1]] : k >= c[2] /\ "/recipeSet" \in files[c[1]][k]
    /\ ~ {"debug", "/recipeSet"} \subseteq LineAt(c)

\* No recipe set ends between lines j and k.
SameSet(g, j, k) ==
  \A l \in DOMAIN files[g] : "/recipeSet" \in files[g][l] => (l < j <=> l < k)

\* A recipe set is dropped exactly if one of its lines names the debug variant.
Kept(g, k) ==
  InSet(g, k) =>
    \A j \in DOMAIN files[g] : InSet(g, j) /\ SameSet(g, j, k) => "debug" \notin files[g][j]
FilterSelects ==
  program = "filter" /\ pc = "done" /\ SetsClosed =>
    InOrder /\ ToSet(out) = {c \in Lines : Kept(c[1], c[2])}

\* Line k ends an element that an earlier line begins.
Upto(g, k, p) == Cardinality({l \in 1 .. k : p \in files[g][l]})
EndsElement(g, k) == "/tag" \in files[g][k] /\ Upto(g, k - 1, "tag") > Upto(g, k - 1, "/tag")

\* Each element ends on a later line than it begins.
ElementsOpen ==
  \A c \in Lines : "/tag" \in LineAt(c) => EndsElement(c[1], c[2])

\* Each task has the parameters of its own line, in their order, and the last
\* repository of that line, whatever the lines before it said.
Equations(line, k) == Cardinality({l \in 1 .. k : line[l][1] = "equation"})
IsTask(t, line) ==
  /\ Len(t.params) = Equations(line, Len(line))
  /\ \A k \in DOMAIN line : line[k][1] = "equation" => t.params[Equations(line, k)] = line[k]
  /\ \/ t.git = <<>> /\ \A k \in DOMAIN line : line[k][1] # "fetch_url"
     \/ \E k \in DOMAIN line :
          /\ t.git = <<line[k]>> /\ line[k][1] = "fetch_url"
          /\ \A l \in k + 1 .. Len(line) : line[l][1] # "fetch_url"
OwnTasks ==
  Len(tasks) = Len(taskfile) /\ \A i \in DOMAIN tasks : IsTask(tasks[i], taskfile[i])

\* awk.awk keeps every line, and puts all the tasks, in their order and nothing
\* else, at the end of each element of the kind asked for.
TasksPlaced ==
  program = "insert" /\ pc = "done" /\ ElementsOpen =>
    /\ OwnTasks /\ InOrder /\ Lines \subseteq ToSet(out)
    /\ \A j \in DOMAIN out : \A i \in DOMAIN tasks :
         out[j] = <<0, i>> <=>
           LET k == j + Len(tasks) + 1 - i
           IN /\ k \in DOMAIN out /\ out[k] \in Lines
              /\ EndsElement(out[k][1], out[k][2])

\* The two programs that edit one job leave in it what belongs there.
EditsJob == FilterSelects /\ TasksPlaced
==============================================================================
