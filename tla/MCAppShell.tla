----------------------------- MODULE MCAppShell -----------------------------
EXTENDS AppShell

CONSTANTS panel, page, term

\* A letter, the same letter from another sender, and a note that repeats the
\* first sender's address in capitals and names a Wu twice.
MCText == [letter |-> <<"a@x.eu", "Anna", "Marsh">>, other |-> <<"b@x.eu", "Anna", "Marsh">>,
           note |-> <<"A@x.eu", "Marsh", "Wu", "Wu">>]
Words == UNION {ToSet(MCText[d]) : d \in DOMAIN MCText}
MCFold == [w \in Words |-> IF w = "A@x.eu" THEN "a@x.eu" ELSE w]
MCNames == {"Anna", "Marsh"}
MCShort == {"Wu"}

Found(s, e, l, c, n) == [start |-> s, end |-> e, label |-> l, conf |-> c, tier |-> n]
MCFloor == [letter |-> {Found(0, 1, "email", 99, 0)}, other |-> {Found(0, 1, "email", 99, 0)},
            note |-> {}]
MCNeural == [letter |-> {Found(1, 2, "person", 80, 1)}, other |-> {Found(1, 2, "person", 80, 1)},
             note |-> {Found(1, 2, "person", 60, 1)}]
MCBatches == {<<"letter", "note">>}
MCBoxes == {<<2, 3>>, <<0, 3>>}

\* A busy feed watched by either console, a list that is edited, a reviewer at
\* work, and a reviewer who leaves the workbench for the console: the sides
\* share the gateway and the screen only.
Feed(who, events, clicks, faults, stops) ==
  [who |-> who, events |-> events, clicks |-> clicks, faults |-> faults, stops |-> stops,
   visits |-> 0, edits |-> 0, scans |-> 0]
List(who, visits, edits, faults, checks, stops) ==
  [who |-> who, events |-> 0, clicks |-> 0, faults |-> faults, stops |-> stops,
   visits |-> visits, edits |-> edits, scans |-> checks]
Work(loads, edits, deep, exports, switches) ==
  [loads |-> loads, edits |-> edits, scans |-> deep, exports |-> exports, switches |-> switches]
Use(console, wb, on) == [console |-> console, work |-> wb, surface |-> on]
Idle == Work(0, 0, 0, 0, 0)
Quiet == Feed({}, 0, 0, 0, 0)

MCUses ==
  {Use(Feed({c}, 4, 4, 1, 1), Idle, "firewall") : c \in {panel, page}}
    \cup {Use(Feed({panel, page}, 2, 3, 0, 0), Idle, "firewall")}
    \cup {Use(l, Idle, "firewall") : l \in {List({panel}, 3, 2, 1, 1, 1), List({page}, 2, 2, 1, 1, 1),
                                            List({panel, page}, 3, 2, 0, 0, 0)}}
    \cup {Use(Quiet, w, "redact") : w \in {Work(2, 1, 1, 1, 0), Work(2, 0, 0, 2, 0),
                                           Work(1, 2, 1, 1, 0), Work(1, 0, 2, 1, 0)}}
    \cup {Use(Feed({panel}, 1, 2, 0, 0), Work(1, 0, 1, 1, 2), "redact"),
          Use(List({panel}, 2, 1, 0, 0, 0), Work(1, 0, 0, 1, 2), "firewall")}

ConsoleBudgets == {u.console : u \in MCUses}
WorkBudgets == {u.work : u \in MCUses}

EventsShown == \A n \in {1, 3} : EventShown(n)
=============================================================================
