---------------------------- MODULE MCAgentCommands ----------------------------
EXTENDS AgentCommands

\* Two pictures that share a run, a footnote with a picture in its body, and a
\* child of the section that is no paragraph.
Pictures ==
    [kids |-> <<<<2, 3, 4>>, <<5, 6>>, <<>>, <<>>, <<7, 8, 9>>, <<10>>, <<>>, <<>>, <<>>, <<11>>,
                <<12>>, <<13>>, <<14>>, <<>>>>,
     kind |-> <<"section", "paragraph", "paragraph", "other", "run", "run", "text", "picture", "picture",
                "ctrl", "note", "paragraph", "run", "picture">>,
     spans |-> {}, covered |-> {}]

\* Two tables, in the first one two rows of three merged, and a paragraph with a
\* picture in the third.
Merge ==
    [kids |-> <<<<2, 3>>, <<4>>, <<12>>, <<5>>, <<6, 7, 8>>, <<>>, <<>>, <<9>>, <<10>>, <<11>>, <<>>,
                <<13>>, <<14>>, <<>>>>,
     kind |-> <<"section", "paragraph", "paragraph", "run", "table", "row", "row", "row", "paragraph", "run",
                "picture", "run", "table", "row">>,
     spans |-> {6}, covered |-> {7}]

\* Two tables without a merge.
Rows ==
    [kids |-> <<<<2, 3>>, <<4>>, <<8>>, <<5>>, <<6, 7>>, <<>>, <<>>, <<9>>, <<10>>, <<>>>>,
     kind |-> <<"section", "paragraph", "paragraph", "run", "table", "row", "row", "run", "table", "row">>,
     spans |-> {}, covered |-> {}]

ThreeDocuments == {Pictures, Merge, Rows}
=============================================================================
