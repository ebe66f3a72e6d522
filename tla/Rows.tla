-------------------------------- MODULE Rows --------------------------------
(***************************************************************************)
(* What Sequelize's save() does to a row. It writes only the columns whose *)
(* value differs from the one the instance was loaded with; the others     *)
(* keep what the row holds by then.                                        *)
(***************************************************************************)

Column(row, loaded, next) == IF next # loaded THEN next ELSE row
=============================================================================
