--------------------------- MODULE MCShellWrapper ---------------------------
(***************************************************************************)
(* Pipelines of up to three programs, scripts of up to six lines, which    *)
(* are run again where first commands fail, pipes of one unit, and         *)
(* descriptors that run out in the fifth line run.                         *)
(***************************************************************************)
EXTENDS ShellWrapper, SequencesExt

Script(lines) ==
  FlattenSeq([ n \in DOMAIN lines |->
    [ k \in DOMAIN lines[n] |->
      [program |-> lines[n][k], last |-> k = Len(lines[n])] ] ])

MCScripts ==
  { Script(<< <<a, b, c>> >>) : a \in {"gen", "yes", "cat", "bad"},
                                b \in {"gen", "cat", "head", "bad", ""},
                                c \in {"cat", "head", "bad"} }
  \union
  { Script(<< <<a>>, <<b, "cat">>, <<c>> >>) : a \in {"bad", "gen", ""},
                                               b \in {"bad", "gen", "cat"},
                                               c \in {"bad", "gen", "cat"} }
  \union
  { Script(<< <<"bad">>, <<a, b>>, <<"bad", "head">>, <<c>> >>) :
      a \in {"bad", "cat"}, b \in {"gen", "bad"}, c \in {"cat", "gen"} }
  \union
  { Script(<< <<"gen">>, <<"gen">>, <<"gen">>, <<"gen">>, <<a, b, "head">> >>) :
      a \in {"gen", "yes"}, b \in {"cat", "gen"} }
  \union
  { Script(<< <<"gen">>, <<"gen">>, <<"gen">>, <<"gen">>, <<a, "cat">>, <<"gen">> >>) :
      a \in {"cat", "head", "bad"} }
  \union
  { Script(<< <<"bad", a>>, <<"bad">>, <<"gen">> >>) : a \in {"head", "cat", "bad"} }
  \union
  { << >>, Script(<< <<"gen">>, <<"gen", "bad">>, <<"yes", "head">> >>) }
=============================================================================
