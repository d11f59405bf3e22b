---------------------------- MODULE MCNotifyRelay ----------------------------
(* One decision, since the mapping is kept per id; two requests at once.      *)
EXTENDS NotifyRelay, TLC

Symmetric == Permutations(Handlers) \cup Permutations(Messages)

Sizes  == {0, 1, 3400, 20000}
Widths == {1, 5}
Plain  == {Text(n, w) : n \in Sizes, w \in Widths}
Heads  == {Text(1, 1), Text(800, 1), Text(160, 5), Text(9000, 5)}

Posted ==
    {[source |-> Text(64, 1), subject |-> Text(128, 1), headline |-> head,
      body |-> body, detail |-> detail,
      links |-> links, link |-> [text |-> Text(20, 5), url |-> Text(500, 1)],
      acts |-> acts, action |-> Text(80, 5)] :
        head \in Heads, body \in Plain, detail \in Plain, links \in {0, 3, 4}, acts \in BOOLEAN}

Tasks == [kind : {4, 40}, task : {8}, status : {4, 900}, w : Widths, failed : BOOLEAN,
         goal : {0, 3000}, result : {0, 3000}, error : {0, 9000}]

AllNotes ==
    {[route |-> "/notify", envelope |-> e] : e \in Posted}
    \cup {[route |-> "/text", first |-> f, rest |-> r] : f \in Plain, r \in Plain}
    \cup {[route |-> "/devclaw", row |-> row] : row \in Tasks}

=============================================================================
