----------------------------- MODULE MCEcDevice -----------------------------
(***************************************************************************)
(* Values for the constants of EcDevice: two registers, of which the       *)
(* firmware changes one, and machines with every outcome of ec_open_rw.    *)
(***************************************************************************)
EXTENDS EcDevice

McMachines == {{}, {"data"}, {"data", "status"}, {"ec-sys", "data", "status"}, {"acpi-ec"},
               {"fake", "ec-sys"}}
McLive == {0}
McWrites == {-1, 1, 3}
McFakeWords == [r \in Registers |-> r]
=============================================================================
