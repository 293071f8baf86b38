----------------------------- MODULE MCParsePool -----------------------------
(* The pool with two workers and more units than workers, so that a worker   *)
(* is given a second unit after its first was answered, lost or stopped; and *)
(* the index merged from every combination of results it can end with, for   *)
(* three small programs.                                                     *)
EXTENDS IndexMerge, TLC

CONSTANTS Outside, Shape, Circle, Square, Stream

(* Files 1 to 3 are the units, 4 and 5 headers of the tree.                  *)
MCBasename == [file \in 1..5 |-> IF file <= 2 THEN "util" ELSE "other"]

Top == [parent |-> 0, body |-> FALSE, virtual |-> FALSE, local |-> FALSE, target |-> None,
        scope |-> Global, column |-> 1]

At(kind, name, file, first, last) ==
    [kind |-> kind, name |-> name, file |-> file, lines |-> <<first, last>>] @@ Top

Body(c) == [c EXCEPT !.body = TRUE]
Static(c) == [c EXCEPT !.scope = Local]
In(i, c) == [c EXCEPT !.parent = i]
To(c, target) == [c EXCEPT !.target = target]

Function(name, file, first, last) == Body(At("function", name, file, first, last))
Call(i, file, line, target) == In(i, To(At("call", "call", file, line, line), target))
Class(name, file, first, last) == Body(At("type", name, file, first, last))
Base(i, file, line, class) == In(i, To(At("base", "base", file, line, line), class))
Method(i, class, file, first, last) ==
    In(i, [At("method", "draw", file, first, last) EXCEPT !.scope = class, !.virtual = TRUE])

Unit(error, includes, cursors) == [error |-> error, includes |-> includes, cursors |-> cursors]
Include(from, file) == [includer |-> from, included |-> file]

Helper(file) == Static(Function("helper", file, 1, 2))
Run == Function("run", 1, 3, 6)
Drawn == Class(Shape, 4, 1, 3)
Draw == Method(1, Shape, 4, 2, 2)
Write == Method(0, Stream, Outside, 9, 9)
Inline == Static(Function("inline", 4, 5, 6))
Bounds == At("macro", "BOUNDS", 4, 8, 8)
Limits == At("variable", "limits", 1, 7, 7)

(* Static functions of one name in files of one basename; a hierarchy spread *)
(* over three units; an indirect call; a nested class.                       *)
Shapes ==
    << Unit(None, {Include(1, 4)},
            << Drawn, Draw, Helper(1), Run, Call(4, 1, 4, Helper(1)), Call(4, 1, 5, Draw) >>),
       Unit(None, {Include(2, 4)},
            << Drawn, Draw, Class(Circle, 2, 10, 16), Base(3, 2, 10, Drawn),
               Body(Method(3, Circle, 2, 11, 13)), Call(5, 2, 12, None),
               Helper(2), Function("reset", 2, 3, 5), Call(8, 2, 4, Helper(2)) >>),
       Unit(None, {Include(3, 4)},
            << Drawn, Draw, Class(Square, 3, 1, 4), Base(3, 3, 1, Drawn),
               Body(Method(3, Square, 3, 2, 3)), Function("main", 3, 5, 9),
               Call(6, 3, 6, [Run EXCEPT !.body = FALSE]), Call(6, 3, 7, Draw),
               In(6, At("asm", "asm", 3, 8, 8)) >>) >>

(* Two programs in one tree, each with its main; a header with a body, a     *)
(* macro and a global; a unit that lacks a header of Clang's own.            *)
Mains ==
    << Unit(None, {Include(1, 4)},
            << Bounds, Inline, Limits, Function("main", 1, 1, 5),
               In(4, To(At("macro_use", "use", 1, 2, 3), Bounds)),
               Call(4, 1, 2, Inline), In(4, To(At("var_ref", "limits", 1, 3, 3), Limits)),
               In(4, [At("variable", "i", 1, 4, 4) EXCEPT !.local = TRUE]), Call(8, 1, 4, Inline) >>),
       Unit("builtin_header", {Include(2, Outside)},
            << Function("gone", 2, 1, 3), Call(1, 2, 2, Inline) >>),
       Unit(None, {Include(3, 4)},
            << Bounds, Inline, Function("main", 3, 1, 4), Call(3, 3, 2, Inline),
               In(3, To(At("macro_use", "use", 3, 3, 3), At("macro", "NULL", Outside, 1, 1))) >>) >>

(* A header above the cap; a prototype read before and after the body; a     *)
(* class local to a function; a call through a class of the toolchain.       *)
Declared ==
    << Unit(None, {Include(1, 4), Include(1, 5)},
            << At("function", "run", 4, 10, 10), Function("large", 5, 1, 3), Call(2, 5, 2, Run),
               Class(Shape, 4, 1, 3), Run, In(5, Class(Square, 1, 4, 5)),
               Body(Method(6, Square, 1, 4, 5)), Call(7, 1, 5, Run),
               In(5, To(At("type_ref", "Shape", 1, 4, 4), Class(Shape, 4, 1, 3))),
               Call(5, 1, 6, Write) >>),
       Unit(None, {Include(2, 4)},
            << At("function", "run", 4, 10, 10), Function("reset", 2, 1, 4),
               Call(2, 2, 2, At("function", "run", 4, 10, 10)), Call(2, 2, 3, Run) >>),
       Unit("syntax", {},
            << Class(Circle, 3, 1, 4), Base(1, 3, 1, At("type", Stream, Outside, 1, 1)) >>) >>

MCPrograms == {Shapes, Mains, Declared}
=============================================================================
