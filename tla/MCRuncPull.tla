----------------------------- MODULE MCRuncPull -----------------------------
EXTENDS RuncPull

D == <<"d">>
X == <<"d", "x">>
F == <<"f">>
Y == <<"f", "y">>

Making  == {Entry("dir", D), Entry("file", X), Entry("file", F),
            Entry("symlink", D), HardLink(F, X)}
Editing == Making \cup {Entry("symlink", F), Entry("whiteout", D), Entry("whiteout", X), Entry("whiteout", F),
                        Entry("opaque", D), Entry("opaque", <<>>), HardLink(Y, X)}

\* Two layers of at most two entries, none of them twice; the model has every symlink dangle.
Layer(entries) == {s \in BoundedSeq(entries, 2) : IsInjective(s)}
Stacks == {<<one, two>> : one \in Layer(Making), two \in Layer(Editing)}
            \cup {<< <<Entry("file", X), Entry("bad", F)>> >>,
                  << <<Entry("symlink", F)>>, <<Entry("other", F), Entry("other", X)>> >>}
Index == [hub |-> TRUE, layers |-> << <<Entry("file", F)>> >>, list |-> TRUE, match |-> TRUE, pinned |-> FALSE]
MCImage == {[hub |-> TRUE, layers |-> layers, list |-> FALSE, match |-> TRUE, pinned |-> TRUE] :
              layers \in {s \in Stacks : NotThroughSymlinks(s)}}
             \cup {Index, [Index EXCEPT !.match = FALSE], [Index EXCEPT !.pinned = TRUE],
                  [Index EXCEPT !.hub = FALSE]}

\* The bundle of another image.
MCLeftover == {<<"old">> :> Node("file", 7, 1)}
=============================================================================
