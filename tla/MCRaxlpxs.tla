------------------------------ MODULE MCRaxlpxs ------------------------------
(* Small instances of Raxlpxs for TLC: patch files and command lines. *)
EXTENDS Raxlpxs

CONSTANTS old, older, oldest, plain, dependent, orphan, badrel, refused, misfit, broken

File == [loads |-> TRUE, fits |-> TRUE, deps |-> <<>>, badrel |-> FALSE, refused |-> FALSE]

AnyDesc ==
    [p \in Patches |->
        CASE p = dependent -> [File EXCEPT !.deps = <<old, older>>]
          [] p = orphan -> [File EXCEPT !.deps = <<plain, plain>>]
          [] p = badrel -> [File EXCEPT !.badrel = TRUE]
          [] p = refused -> [File EXCEPT !.refused = TRUE]
          [] p = misfit -> [File EXCEPT !.fits = FALSE]
          [] p = broken -> [File EXCEPT !.loads = FALSE]
          [] OTHER -> File]

\* The command lines of the instance, with the options in several orders.
Opt(name, value) == [name |-> name, value |-> value]
Flag(name) == Opt(name, NoPatch)
Socket == Flag("socket")

\* Every kind of file, next to commands that take patches in and out.
MCCommandLines ==
    {<<Socket, Opt("apply", p)>> : p \in Patches \ {old, oldest}} \cup
    {<<Opt("remove", plain), Socket>>, <<Opt("remove", old), Opt("a", plain), Socket>>, <<Socket, Opt("remove", old)>>,
     <<Opt("remove", NoPatch), Socket>>,
     <<Flag("s"), Opt("a", plain)>>, <<Flag("help"), Flag("socket")>>,
     <<Opt("find", older), Socket>>,
     <<Flag("d"), Flag("l"), Flag("u"), Opt("f", older), Socket>>,
     <<Opt("remove", plain), Opt("find", old), Opt("a", plain), Socket>>,
     <<Flag("i"), Socket, Flag("list"), Opt("find", plain), Opt("remove", plain),
       Opt("apply", plain)>>}

MCBefore == {<<old>>, <<old, older, oldest>>}
===============================================================================
