------------------------------ MODULE RuleTree ------------------------------
(***************************************************************************)
(* The rule-tree evaluator of src/node.c: node_eval_root, the recursion of *)
(* _eval_node over child and sibling links, the per-type eval handlers and *)
(* the node and block cleanups that manage the regex match frame.          *)
(*                                                                         *)
(* A tree of k nodes is given in preorder by the depth of every node;      *)
(* node 1 is the root and the top-level statements are its siblings.       *)
(* Strings are abstracted to what the evaluation tells apart: a pattern is *)
(* "plain" (verbatim text, context fields), "cap" (%{1}, a capture group)  *)
(* or "var" (a variable).  The regex library is outside src/: a MATCH's    *)
(* outcome on a line is an input.                                           *)
(***************************************************************************)
EXTENDS Naturals, Sequences, SequencesExt

CONSTANTS
    MaxNodes,     \* bound on the nodes of a tree
    NodeTypes,    \* node types the trees are built from
    MaxLines      \* bound on the lines evaluated

Types == {"PASSTHROUGH", "ASSIGN", "BREAK", "MATCH", "MATCHALL", "MELSE", "WRITE"}

ASSUME
    /\ MaxNodes \in Nat \ {0}
    /\ NodeTypes \subseteq Types
    /\ MaxLines \in Nat \ {0}

VARIABLES
    tree,         \* the configured tree: dep, type and pattern of each node
    vars,         \* dlogenv->vars_table: the value of the one variable
    lines,        \* lines evaluated so far
    trace,        \* nodes whose handler ran on the last line, in order
    out,          \* write_cb calls of the last line: node and value
    reads,        \* capture-group reads of the last line
    crashed,      \* a NULL match frame was dereferenced: the daemon died
    input         \* the regex and source-filter outcomes of the last line

vars0 == <<tree, vars, lines, trace, out, reads, crashed, input>>

Results == {"TRUE", "FALSE", "BREAK", "ERROR"}
NoNode == 0

-----------------------------------------------------------------------------
(* Tree shape from the preorder depths.                                     *)
Size == Len(tree.dep)
Nodes == 1..Size

Child(n) == IF n < Size /\ tree.dep[n + 1] = tree.dep[n] + 1 THEN n + 1 ELSE NoNode

Sibling(n) ==
    LET later == {m \in n + 1..Size : tree.dep[m] = tree.dep[n]
                                      /\ \A j \in n + 1..m - 1 : tree.dep[j] > tree.dep[n]}
    IN  IF later = {} THEN NoNode ELSE Min(later)

PrevSibling(n) == IF \E m \in Nodes : Sibling(m) = n
                  THEN CHOOSE m \in Nodes : Sibling(m) = n ELSE NoNode

Parent(n) ==
    LET above == {m \in 1..n - 1 : tree.dep[m] = tree.dep[n] - 1}
    IN  IF tree.dep[n] = 0 THEN NoNode ELSE Max(above)

RECURSIVE Ancestors(_)
Ancestors(n) == IF Parent(n) = NoNode THEN {} ELSE {Parent(n)} \cup Ancestors(Parent(n))

(* The trees the configuration parser builds: MELSE only right after a     *)
(* MATCH or MATCHALL (spec.md 3), and %{n} only inside a MATCH block.     *)
Trees(k) ==
    { t \in [dep : {d \in [1..k -> 0..k - 1] :
                       d[1] = 0 /\ \A i \in 1..k - 1 : d[i + 1] <= d[i] + 1},
             type : [1..k -> NodeTypes],
             pat : [1..k -> {"plain", "cap", "var"}]] :
        \A i \in 1..k :
            /\ t.type[i] \notin {"WRITE", "ASSIGN"} => t.pat[i] = "plain"
            /\ t.type[i] = "ASSIGN" => t.pat[i] # "var" }

ValidTree ==
    \A n \in Nodes :
        /\ tree.type[n] = "MELSE" =>
               PrevSibling(n) # NoNode /\ tree.type[PrevSibling(n)] \in {"MATCH", "MATCHALL"}
        /\ tree.pat[n] = "cap" => \E a \in Ancestors(n) : tree.type[a] = "MATCH"

-----------------------------------------------------------------------------
(* The execution context of one line: the match frame ctx->re_match (a   *)
(* MATCH node whose cur_match it points to, NoNode for NULL), the MATCH   *)
(* nodes whose cur_match holds a live match, every MATCH node's           *)
(* prev_match, and what the line did.                                     *)
(* A MATCHALL node's context is struct node_ctx_matchall; its bytes at    *)
(* the offset of match.prev_match are never written by the evaluator and  *)
(* are zero in a calloc'ed node.                                          *)
MatchallPrevMatch == NoNode

(* strpartial_resolve of node n's pattern.  A capture group reads         *)
(* ctx->re_match->sm_nmatch and sm_match: with a NULL frame that is a     *)
(* NULL dereference; with a frame whose cur_match was freed it reads      *)
(* freed memory.  The read is logged with the frame it used.              *)
Resolve(n, c) ==
    CASE tree.pat[n] = "cap" /\ c.frame = NoNode ->
             [c EXCEPT !.crashed = TRUE]
      [] tree.pat[n] = "cap" ->
             [c EXCEPT !.reads = Append(@, [node |-> n, frame |-> c.frame,
                                             live |-> c.frame \in c.live])]
      [] OTHER -> c

(* The value resolved: the frame whose capture was copied, or the         *)
(* variable's value (dynstr_cat copies it).                                *)
Value(n, c) ==
    CASE tree.pat[n] = "cap" -> IF c.frame \in c.live THEN c.frame ELSE NoNode
      [] tree.pat[n] = "var" -> c.vars
      [] OTHER -> NoNode

(* The eval handler of node n: its result and the context after it.        *)
Eval(n, c, prev, outcome) ==
    LET ty == tree.type[n]
        c0 == [c EXCEPT !.trace = Append(@, n)]
    IN
    CASE ty = "PASSTHROUGH" -> [r |-> "TRUE", c |-> c0]
      [] ty = "BREAK" -> [r |-> "BREAK", c |-> c0]
      [] ty = "MELSE" -> [r |-> IF prev = "FALSE" THEN "TRUE" ELSE "FALSE", c |-> c0]
      [] ty = "MATCHALL" -> [r |-> IF outcome[n] = "pass" THEN "TRUE" ELSE "FALSE", c |-> c0]
      [] ty = "MATCH" ->
           LET c1 == [c0 EXCEPT !.prev[n] = c0.frame]
           IN  CASE outcome[n] = "match" ->
                      [r |-> "TRUE", c |-> [c1 EXCEPT !.frame = n, !.live = @ \cup {n}]]
                 [] outcome[n] = "nomatch" -> [r |-> "FALSE", c |-> c1]
                 [] OTHER -> [r |-> "ERROR", c |-> c1]
      [] ty = "ASSIGN" ->
           LET c1 == Resolve(n, c0)
           IN  [r |-> "TRUE", c |-> [c1 EXCEPT !.vars = Value(n, c0)]]
      [] ty = "WRITE" ->
           LET c1 == Resolve(n, c0)
           IN  [r |-> "TRUE",
                c |-> IF c1.crashed THEN c1
                      ELSE [c1 EXCEPT !.out = Append(@, <<n, Value(n, c0)>>)]]

(* node_cleanup, after the child block: _match_outofscope for MATCH and   *)
(* MATCHALL restores the saved frame and frees cur_match.                  *)
NodeCleanup(n, c) ==
    CASE tree.type[n] = "MATCH" -> [c EXCEPT !.frame = c.prev[n], !.live = @ \ {n}]
      [] tree.type[n] = "MATCHALL" -> [c EXCEPT !.frame = MatchallPrevMatch]
      [] OTHER -> c

(* block_cleanup, when _eval_node of n returns: _del_block_match frees a  *)
(* MATCH's cur_match; the frame may still point to it.                     *)
BlockCleanup(n, c) ==
    IF tree.type[n] = "MATCH" THEN [c EXCEPT !.live = @ \ {n}] ELSE c

(* Mutant: the sibling is handed the child block's result (r) instead of *)
(* n's own (topr) as prev_res.                                             *)
RECURSIVE EvalNodeSiblingGetsChildResult(_, _, _, _)
EvalNodeSiblingGetsChildResult(n, c, prev, outcome) ==
    IF c.crashed THEN [r |-> "ERROR", c |-> c]
    ELSE
    LET s == Eval(n, c, prev, outcome)
        enter == s.r = "TRUE" /\ Child(n) # NoNode
        ch == IF enter THEN EvalNodeSiblingGetsChildResult(Child(n), s.c, s.r, outcome) ELSE s
        c2 == IF enter THEN NodeCleanup(n, ch.c) ELSE s.c
        stop == s.r \in {"BREAK", "ERROR"} \/ (enter /\ ch.r \in {"BREAK", "ERROR"})
        c3 == IF ~stop /\ Sibling(n) # NoNode
              THEN EvalNodeSiblingGetsChildResult(Sibling(n), c2, ch.r, outcome).c ELSE c2
    IN  [r |-> s.r, c |-> BlockCleanup(n, c3)]

(* _eval_node: evaluate n; on BREAK or ERROR return at once; if TRUE,     *)
(* evaluate the child block, run the node cleanup and return if the       *)
(* child's result was BREAK or ERROR; evaluate the sibling with n's       *)
(* result as its prev_res; run the block cleanup.  A crash ends it all.   *)
RECURSIVE EvalNode(_, _, _, _)
EvalNode(n, c, prev, outcome) ==
    IF c.crashed THEN [r |-> "ERROR", c |-> c]
    ELSE
    LET s == Eval(n, c, prev, outcome)
        enter == s.r = "TRUE" /\ Child(n) # NoNode
        ch == IF enter THEN EvalNode(Child(n), s.c, s.r, outcome) ELSE s
        c2 == IF enter THEN NodeCleanup(n, ch.c) ELSE s.c
        stop == s.r \in {"BREAK", "ERROR"} \/ (enter /\ ch.r \in {"BREAK", "ERROR"})
        c3 == IF ~stop /\ Sibling(n) # NoNode
              THEN EvalNode(Sibling(n), c2, s.r, outcome).c ELSE c2
    IN  [r |-> s.r, c |-> BlockCleanup(n, c3)]

-----------------------------------------------------------------------------
Init ==
    /\ tree \in UNION {Trees(k) : k \in 1..MaxNodes}
    /\ ValidTree
    /\ vars = NoNode
    /\ lines = 0
    /\ trace = <<>> /\ out = <<>> /\ reads = <<>>
    /\ crashed = FALSE
    /\ input = [n \in Nodes |-> "none"]

(* The outcomes of the regex and source filters on a line.                 *)
LineOutcomes ==
    {o \in [Nodes -> {"match", "nomatch", "error", "pass", "gated", "none"}] :
        \A n \in Nodes :
            CASE tree.type[n] = "MATCH" -> o[n] \in {"match", "nomatch", "error"}
              [] tree.type[n] = "MATCHALL" -> o[n] \in {"pass", "gated"}
              [] OTHER -> o[n] = "none"}

(* node_eval_root for the next line (called by descriptor_read for every  *)
(* line the reader hands over): a fresh context with a NULL frame, then   *)
(* _eval_node(root, ctx, EVAL_TRUE).                                       *)
EvalLine ==
    /\ ~crashed /\ lines < MaxLines
    /\ \E o \in LineOutcomes :
          LET c0 == [frame |-> NoNode, live |-> {}, prev |-> [n \in Nodes |-> NoNode],
                     vars |-> vars, trace |-> <<>>, out |-> <<>>, reads |-> <<>>,
                     crashed |-> FALSE]
              c == EvalNode(1, c0, "TRUE", o).c
          IN  /\ vars' = c.vars /\ trace' = c.trace /\ out' = c.out
              /\ reads' = c.reads /\ crashed' = c.crashed /\ input' = o
    /\ lines' = lines + 1
    /\ UNCHANGED tree

Next == EvalLine

Spec == Init /\ [][Next]_vars0

-----------------------------------------------------------------------------
(* The control rules of spec.md 4.g, stated per node: a node runs if it   *)
(* opens a block whose owner ran and returned TRUE (the root: always), or *)
(* if its previous sibling ran and returned neither BREAK nor ERROR.  Its *)
(* result depends on its previous sibling's (MELSE).                      *)
RefSelf(n, prev) ==
    CASE tree.type[n] \in {"PASSTHROUGH", "ASSIGN", "WRITE"} -> "TRUE"
      [] tree.type[n] = "BREAK" -> "BREAK"
      [] tree.type[n] = "MELSE" -> IF prev = "FALSE" THEN "TRUE" ELSE "FALSE"
      [] tree.type[n] = "MATCHALL" -> IF input[n] = "pass" THEN "TRUE" ELSE "FALSE"
      [] OTHER -> CASE input[n] = "match" -> "TRUE"
                    [] input[n] = "nomatch" -> "FALSE"
                    [] OTHER -> "ERROR"

RECURSIVE RefResult(_)
RefResult(n) ==
    RefSelf(n, IF PrevSibling(n) # NoNode THEN RefResult(PrevSibling(n)) ELSE "TRUE")

RECURSIVE RefRuns(_)
RefRuns(n) ==
    IF PrevSibling(n) # NoNode
    THEN RefRuns(PrevSibling(n)) /\ RefResult(PrevSibling(n)) \notin {"BREAK", "ERROR"}
    ELSE Parent(n) = NoNode \/ (RefRuns(Parent(n)) /\ RefResult(Parent(n)) = "TRUE")

(* The innermost MATCH whose block holds n.                                *)
EnclosingMatch(n) ==
    LET ms == {a \in Ancestors(n) : tree.type[a] = "MATCH"}
    IN  IF ms = {} THEN NoNode ELSE Max(ms)

(* Nodes of the block of b, at any depth.                                   *)
Ran(b) == \E i \in 1..Len(trace) : b \in Ancestors(trace[i])

-----------------------------------------------------------------------------
TypeOK ==
    /\ ValidTree
    /\ vars \in Nodes \cup {NoNode}
    /\ lines \in 0..MaxLines
    /\ trace \in Seq(Nodes)
    /\ out \in Seq(Nodes \X (Nodes \cup {NoNode}))
    /\ \A i \in 1..Len(reads) : reads[i].node \in Nodes /\ reads[i].frame \in Nodes
    /\ crashed \in BOOLEAN

(* MELSE is the else branch of the MATCH or MATCHALL before it: on one     *)
(* line the statements of the two blocks never both run.  _eval_node      *)
(* passes each node's own result to its sibling as prev_res.               *)
BranchesExclusive ==
    \A m \in Nodes :
        Sibling(m) # NoNode /\ tree.type[Sibling(m)] = "MELSE"
            => ~(Ran(m) /\ Ran(Sibling(m)))

(* spec.md 4.g: the nodes _eval_node runs on a line are those the control *)
(* rules select; in particular BREAK (and an ERROR) cancels the rest of   *)
(* its enclosing block and nothing outside it.                            *)
RoutesAsSpecified ==
    ~crashed => {trace[i] : i \in 1..Len(trace)} = {n \in Nodes : lines > 0 /\ RefRuns(n)}

(* spec.md 4.g and the %{<number>} comment of strpartial.c: a capture      *)
(* group is taken from the match frame of the enclosing MATCH block,       *)
(* pushed by that MATCH and popped on block exit; the evaluator never     *)
(* dereferences a missing or freed frame.                                  *)
CapturesFromEnclosingMatch ==
    /\ ~crashed
    /\ \A i \in 1..Len(reads) :
           reads[i].live /\ reads[i].frame = EnclosingMatch(reads[i].node)

=============================================================================
