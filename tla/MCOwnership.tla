---------------------------- MODULE MCOwnership ----------------------------
EXTENDS Ownership

MCParams == <<"x">>

Stmt(k, x) == [k |-> k, x |-> x]
If(t, e) == [k |-> "if", t |-> t, e |-> e]
Loop(b) == [k |-> "loop", b |-> b]
While(m, b) == [k |-> "while", m |-> m, b |-> b]
LetMove(x, y) == [k |-> "letmove", x |-> x, y |-> y]
Match(y, z, g, t, e) == [k |-> "match", y |-> y, z |-> z, g |-> g, t |-> t, e |-> e]
Select(z, t, e) == [k |-> "select", z |-> z, t |-> t, e |-> e]
Spawn(b) == [k |-> "spawn", b |-> b]
Try == [k |-> "try"]
Break == [k |-> "break"]
Continue == [k |-> "continue"]

(* What a function can do with its parameter, and how it leaves a block.   *)
Simple == {Stmt("print", "x"), Stmt("call", "x"), Stmt("assign", "x")}
Jumps == {Break, Continue}
Ends(jumps) == {<<s>> : s \in jumps \cup {Stmt("return", "x")}}
Short(jumps) == {<<>>} \cup {<<s>> : s \in Simple} \cup Ends(jumps)
                \cup {<<s>> \o e : s \in Simple, e \in Ends(jumps)}

(* A branch between two statements, and the same in a loop.                *)
Branching == {<<If(t, e)>> : t \in Short({}), e \in Short({})}
Looping ==
    {<<Loop(a \o <<If(t, e)>> \o b)>> :
        a \in {<<>>} \cup {<<s>> : s \in Simple}, b \in {<<>>} \cup {<<s>> : s \in Simple},
        t \in Short(Jumps), e \in {<<>>} \cup {<<s>> : s \in Simple}}
    \cup {<<While(<<>>, <<Stmt("let", "y"), If(t, <<>>)>>)>> : t \in Short(Jumps)}

(* Bindings of inner scopes, values moved between them, and the exits that *)
(* drop them.                                                              *)
OfY == {<<>>, <<Stmt("print", "y")>>, <<Stmt("call", "y")>>, <<Stmt("return", "y")>>}
OfZ == {<<>>, <<Stmt("call", "z")>>, <<Stmt("return", "z")>>, <<LetMove("w", "z"), Try>>}
Scoped ==
    {<<Stmt("let", "y"), Try>> \o b : b \in OfY}
    \cup {<<LetMove("y", "x"), If(b, c)>> : b \in OfY, c \in OfY}
    \cup {<<Match("x", "z", g, t, e)>> : g \in BOOLEAN, t \in OfZ, e \in Short({})}
    \cup {<<Loop(<<Stmt("let", "y"), Match("y", "z", g, t \o u, <<Break>>)>>)>> :
             g \in BOOLEAN, t \in OfZ, u \in {<<>>, <<Continue>>}}
    \cup {<<Stmt("let", "y"), Spawn(<<Stmt(k, "x"), Stmt("print", "y")>>)>> :
             k \in {"print", "call"}}

Selecting(bodies) == {<<Select("z", <<Stmt("call", "z")>> \o t, e)>> : t \in bodies, e \in bodies}

After(ps) == {p \o a : p \in ps, a \in {<<>>} \cup {<<s>> : s \in Simple}}

(* The passing run leaves out what the other runs are about: jumps that    *)
(* leave an iteration with an outer local moved, a while condition that    *)
(* moves, a select arm that leaves the function, assigns a local an earlier*)
(* arm moved, or receives an owned value that it does not pass on.         *)
Regular(ps) == {p \in ps : ~check_function(MCParams, p).lostJump}
MCPrograms ==
    Regular(After(Branching \cup Looping \cup Scoped
                  \cup Selecting({<<>>, <<Stmt("print", "x")>>, <<Stmt("call", "x")>>})))

(* Loops without that restriction.                                         *)
LoopPrograms == After({p \in Looping : Accepted(MCParams, p)}
                      \cup {<<While(<<"x">>, <<>>)>>})

=============================================================================
