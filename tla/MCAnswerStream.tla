--------------------------- MODULE MCAnswerStream ---------------------------
\* Answers of three chunks, some of them empty, cut inside lines, line ends and blank lines.
EXTENDS AnswerStream

MCChunks ==
  { <<>>, <<"data:">>, <<"start">>, <<"lf">>, <<"cr">>, <<"lf", "cr", "lf">>, <<"invalid", "lf">>,
    <<"data:", "start", "lf">>, <<"lf", "data:", "delta", "lf", "lf">>,
    <<"data:", "last", "lf", "lf", "data:">> }

MCSays ==
  [start |-> [type |-> "message_start", stop |-> None,
              usage |-> [input |-> 3, output |-> 1, cache_read |-> 2]],
   delta |-> [type |-> "message_delta", stop |-> "end_turn",
              usage |-> [output |-> 5, nested |-> 4]],
   last  |-> [type |-> "message_delta", stop |-> None,
              usage |-> [cache_creation |-> 1, nested |-> 1]]]
=============================================================================
