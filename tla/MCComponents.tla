-------------------------- MODULE MCComponents --------------------------
(* Components on small sets.                                                          *)
EXTENDS Components

MCKind == [j \in JobsJobs |-> IF j = "e" THEN "extraction" ELSE "summary"]

\* What the service says: an answer, the start of a tag that is none, thinking that
\* ends, is lengthened by casefold(), does not end or is too long, and more than the limit.
MCFewReplies == {<<"word", "word">>}
MCReplies ==
  {<<"word", "word">>, <<"<th", "word">>,
   <<"<th", "ink>", "thought", "</th", "ink>", "break", "word">>,
   <<"<th", "ink>", "sharp", "</th", "ink>", "word", "word">>,
   <<"break", "<th", "ink>", "thought">>,
   <<"<th", "ink>", "thought", "thought", "word">>,
   <<"word", "word", "word", "word", "word", "word", "word", "word">>}
=============================================================================
