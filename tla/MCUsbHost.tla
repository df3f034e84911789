------------------------------ MODULE MCUsbHost ------------------------------
(* A device that can be written to, and one that can only be read.         *)
EXTENDS UsbHost

WritableAndReadOnly == <<{"rw"}, {"ro"}>>
=============================================================================
