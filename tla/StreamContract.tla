---------------------------- MODULE StreamContract ----------------------------
(***************************************************************************)
(* What the browser may rely on in the public event stream of one turn:    *)
(* it opens with "started", sections come one after another and never      *)
(* twice, text belongs to the open section once sections are used, nothing *)
(* follows the terminal event, no section is open when it comes, and a     *)
(* stream that withdrew a section does not end in "completed".             *)
(***************************************************************************)
EXTENDS Naturals, Sequences

CONSTANT Section        \* section numbers, 0 stands for no section

VARIABLE log            \* the events received so far

Terminal == {"completed", "error", "cancelled"}
Closing  == {"section_completed", "section_aborted"}
Kind     == {"started", "activity", "section_started", "text_delta"}
              \union Closing \union Terminal
Event    == [type : Kind, sec : Section \union {0}]

Seen(types)    == \E i \in DOMAIN log : log[i].type \in types
Sections(types) == {log[i].sec : i \in {j \in DOMAIN log : log[j].type \in types}}
OpenSections    == Sections({"section_started"}) \ Sections(Closing)

\* The event e may be the next one.
May(e) ==
    /\ ~Seen(Terminal)
    /\ (e.type = "started") <=> (log = <<>>)
    /\ e.type = "section_started" =>
          OpenSections = {} /\ e.sec \notin Sections({"section_started"}) \union {0}
    /\ e.type = "text_delta" =>
          IF Seen({"section_started"}) THEN e.sec \in OpenSections ELSE e.sec = 0
    /\ e.type \in Closing => e.sec \in OpenSections
    /\ e.type \in Terminal => OpenSections = {}
    /\ e.type = "completed" => ~Seen({"section_aborted"})

Init == log = <<>>
Next == \E e \in Event : May(e) /\ log' = Append(log, e)
Spec == Init /\ [][Next]_log
=============================================================================
