------------------------------ MODULE MCTenancy ------------------------------
(***************************************************************************)
(* Values for the constants of Tenancy: the requests of each scene, and    *)
(* which of its hashes are of the same password.                           *)
(***************************************************************************)
EXTENDS Tenancy, TLC

Scene(kinds, most, serialized, words) ==
    [kinds |-> kinds, calls |-> most, serialized |-> serialized,
     words |-> words, parsed |-> TRUE]
OnMariaDB(s) == [s EXCEPT !.parsed = FALSE]

MCScenes ==
    [n \in {"people", "admins", "transfer", "hiring", "links", "tab", "hurry",
            "imports", "rows", "text"} |->
       CASE n = "people" ->
              Scene({"create", "login", "edit", "own", "link"}, 3, TRUE,
                    <<1, 2, 3>>)
         [] n = "admins" ->
              Scene({"create", "login", "own", "link", "admin", "adminEdit",
                     "company"}, 4, TRUE, <<1, 2, 2>>)
         [] n = "transfer" ->
              Scene({"create", "mark", "backup", "import"}, 3, TRUE,
                    <<1, 2, 3>>)
         [] n = "hiring" ->
              Scene({"create", "login", "own"}, 3, FALSE, <<1, 1, 3>>)
         [] n = "links" ->
              Scene({"link", "own", "adminEdit"}, 3, FALSE, <<1, 2, 1>>)
         [] n = "tab" ->
              Scene({"browse", "company"}, 8, TRUE, <<1, 1, 3>>)
         [] n = "hurry" ->
              Scene({"browse", "hurry"}, 6, TRUE, <<1, 2, 3>>)
         [] n = "imports" ->
              Scene({"login", "mark", "backup", "import"}, 5, FALSE,
                    <<1, 2, 3>>)
         [] n = "rows" ->
              Scene({"rows", "backup", "import"}, 5, FALSE, <<1, 2, 3>>)
         [] n = "text" ->
              OnMariaDB(Scene({"rows", "backup", "import"}, 4, TRUE,
                              <<1, 2, 3>>))]

MCSymmetry ==
    Permutations(People) \cup Permutations(Emails) \cup Permutations(Slots)
      \cup Permutations(Departments)
=============================================================================
