-------------------------------- MODULE MCSession --------------------------------
(* A small instance of TurnLoop, and what it must keep.                           *)
EXTENDS SessionPromises, TLC

CONSTANTS main, other

Plan(created, a, b, replies, may, die, fail) ==
  [created |-> created, jobs |-> (main :> a @@ other :> b), replies |-> replies, may |-> may,
   kills |-> die, faults |-> fail]

(* Each plan makes one kind of meeting happen.                                    *)
MCPlans ==
  { \* a log compacted, rewound and compacted again; another turn in between
    Plan(TRUE, <<"say", "say", "rewind", "say">>, <<>>, {"text", "tool"}, {"compact", "snapshot"}, 0, 0),
    Plan(TRUE, <<"say", "compact", "say", "rewind">>, <<>>, {"text"}, {"compact", "watch"}, 1, 0),
    Plan(TRUE, <<"say", "rewind">>, <<"say", "compact">>, {"text"}, {"compact", "snapshot"}, 0, 0),
    \* the provider's call ids over and over, in and behind the index
    Plan(TRUE, <<"say", "compact", "continue">>, <<>>, {"tool", "tools"}, {"compact"}, 1, 0),
    \* a session made, swept, tidied and deleted under a turn
    Plan(FALSE, <<"create", "say">>, <<"sweep", "say", "delete">>, {"text"}, {"watch"}, 1, 0),
    Plan(FALSE, <<"create">>, <<"create", "continue", "empty">>, {"text"}, {}, 0, 1),
    \* and deleted and made anew, as long as before, behind a watcher's back
    Plan(FALSE, <<"create", "say", "delete", "create", "say">>, <<>>, {"text"}, {"watch"}, 0, 0),
    \* questions: answered, cancelled, abandoned, answered later
    Plan(TRUE, <<"say", "answer">>, <<"answer">>, {"ask"}, {"cancel"}, 0, 0),
    Plan(TRUE, <<"say", "rewind", "answer">>, <<>>, {"ask", "mixed", "text"}, {}, 1, 1),
    \* the provider breaks off, the disk refuses, the user cancels and speaks up
    Plan(TRUE, <<"say", "continue">>, <<>>, {"text", "broken", "failed"}, {"compact"}, 0, 1),
    Plan(TRUE, <<"say", "compact">>, <<>>, {"text", "tools", "failed"}, {"steer", "cancel", "compact"}, 0, 0),
    \* pictures
    Plan(TRUE, <<"say", "say", "continue">>, <<>>, {"tools", "text"}, {"pictures"}, 0, 0)
  }

(* A turn full of pictures, behind a compaction.                                  *)
MCPicturePlans ==
  {Plan(TRUE, <<"say", "say", "say">>, <<>>, {"tools", "text"}, {"pictures", "compact"}, 0, 0)}
==================================================================================
