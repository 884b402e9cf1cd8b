------------------------- MODULE MCDriveRedirection -------------------------
(* A drive with two names, a device that is not mapped, and requests that  *)
(* use "." and "..", one of which leaves the drive.                        *)
EXTENDS DriveRedirection

MCRequested == {<<>>, <<"a">>, <<"a", "..", "b">>, <<"..", "a">>}
=============================================================================
