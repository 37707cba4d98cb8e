---------------------------- MODULE MCScheduled ----------------------------
(* A headless action that repeats and a one-off that runs in a tab. *)
EXTENDS ScheduledProperties

HeadlessAndTab ==
    <<[rule |-> [kind |-> "interval", period |-> 2, at |-> 0], policy |-> "skip",
       mode |-> "headless", steps |-> 2, continues |-> FALSE],
      [rule |-> [kind |-> "once", period |-> 1, at |-> 1], policy |-> "catch_up_once",
       mode |-> "tab", steps |-> 1, continues |-> TRUE]>>
=============================================================================
