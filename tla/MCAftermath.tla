----------------------------- MODULE MCAftermath -----------------------------
(***************************************************************************)
(* Values for the constants of Aftermath: the requests of each scene.      *)
(***************************************************************************)
EXTENDS Aftermath

Scene(kinds, staff, marks, time, faulty, serialized) ==
    [kinds |-> kinds, staff |-> staff, marks |-> marks, time |-> time,
     faults |-> faulty, serialized |-> serialized]

One == CHOOSE u \in Users : TRUE

MCScenes ==
    [pins |-> Scene({"pin", "setPin", "status"}, Users, 1, 3, 0, TRUE),
     mails |-> Scene({"pin", "setPin"}, {One}, 1, 0, 1, FALSE),
     faces |-> Scene({"enrol", "reset", "face"}, {One}, 1, 0, 1, TRUE),
     photos |-> Scene({"photo"}, {One}, 2, 2, 1, TRUE),
     sweeps |-> Scene({"photo"}, {One}, 1, 2, 1, FALSE),
     days |-> Scene({"day"}, Users, 0, 1, 1, TRUE)]
=============================================================================
