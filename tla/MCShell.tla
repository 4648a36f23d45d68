------------------------------- MODULE MCShell -------------------------------
EXTENDS Shell

a == 97
b == 98
MCSpelling == ("a" :> <<a>>) @@ ("b" :> <<b>>) @@ ("ab" :> <<a, b>>)
              @@ ("a*b$" :> <<a, STAR, b, DOLLAR>>) @@ ("^.b" :> <<HAT, DOT, b>>)
              @@ ("x" :> <<120>>) @@ ("f" :> <<102>>) @@ ("|" :> <<124>>)
(* f has two lines and a piece of a third; g has words.                    *)
MCDisk == (<<"/", "f">> :> <<a, b, NL, b, a, NL, b>>) @@ (<<"/", "g">> :> <<a, SP, SP, b, a, NL>>)
          @@ (<<"d", "f">> :> <<b, NL>>)
MCDirs == {"/", "d"}

Tokens == {"x", "|", "&", ";", "(", ")", "<", ">"}
(* All short lines, but for those that start too many processes at once.   *)
Short == {l \in UNION {[1 .. n -> Tokens] : n \in 0 .. 3} :
            Cardinality({i \in DOMAIN l : l[i] \in {"|", "&"}}) < 2}
Wrong == {l \in [1 .. 4 -> {"x", "|", "(", ")", ";", "<"}] : Line(l) = {}}
Piped == {
  <<"cat", "f", "|", "grep", "a*b$">>,
  <<"cat", "f", "|", "grep", "^.b", "|", "wc">>,
  <<"grep", "ab", "f", "|", "wc">>,
  <<"cat", "f", "|", "echo", "a">>,
  <<"(", "cat", "f", ";", "echo", "b", ")", "|", "(", "cat", ")", ">", "x">>}
(* More pipes and more processes than there are.                           *)
Greedy == {
  <<"echo", "a", "|", "cat", "|", "cat", "|", "cat">>,
  <<"(", "(", "(", "(", "echo", "a", ";", "x", ")", ";", "x", ")", ";", "x", ")", ";", "x", ")",
    ";", "x">>}
Others == {
  <<"echo", "a", ">", "x", ";", "cat", "x", "f">>,
  <<"(", "echo", "a", ";", "cat", "<", "g", ")", ">", "x">>,
  <<"wc", "<", "g", ">", "x">>,
  <<"echo", "ab", ">", "f", ">", "x">>,
  <<"echo", "ab", "+", "g">>,
  <<"echo", "a", "&", ";", "echo", "b">>,
  <<"echo", "a", "|", "cat", "&">>,
  <<"cat", "x", "f">>, <<"wc", "x">>, <<"grep">>, <<"echo", "a", "b", "ab", "x">>}
MCMortal == {<<<<"cat", "f", "|", "wc">>>>, <<<<"pipe1">>>>}
MCScripts == {<<l>> : l \in Short \cup Wrong \cup Piped \cup Greedy \cup Others} \cup MCMortal
             \cup {<<<<"cd", "d">>, <<"cat", "f">>, <<"cd", "x">>, <<"wc", "f">>>>}
==============================================================================
