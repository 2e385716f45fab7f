----------------------------- MODULE MCNetStream -----------------------------
(* Instances of NetStream for TLC.                                         *)
EXTENDS NetStream

(* struct op_common: 16-bit code and 32-bit status (the version is as the  *)
(* code); a busid; some numbers and bytes of struct usbip_usb_device, and  *)
(* of an interface.                                                        *)
OpCommon(code, status) == <<code, 9, 0, 0, 0, status>>
Busid     == <<1, 2>>
Device    == <<1, 2, 3, 4, 5, 6, 7, 8, 9>>
Interface == <<1>>

Turns(r, numbers, opts, acc) ==
    [from |-> r, size |-> Len(CHOOSE m \in opts : TRUE), numbers |-> numbers,
     options |-> opts, accept |-> acc]
Common(r, opts, acc)  == Turns(r, {<<1, 2>>, <<3, 6>>}, opts, acc)
Only(r, numbers, m)   == Turns(r, numbers, {m}, {m})
InDevice              == {<<3, 6>>, <<7, 8>>}

Import  == << Common("client", {OpCommon(128, 0)}, {OpCommon(128, 0)}),
              Only("client", {}, Busid),
              Common("server", {OpCommon(3, 0), OpCommon(3, 1)}, {OpCommon(3, 0)}),
              Only("server", InDevice, Device) >>
Devlist == << Common("client", {OpCommon(129, 0)}, {OpCommon(129, 0)}),
              Only("client", {}, << >>),
              Common("server", {OpCommon(5, 0)}, {OpCommon(5, 0)}),
              Only("server", {<<1, 4>>}, <<0, 0, 0, 1>>),
              Only("server", InDevice, Device \o Interface) >>

Both == {Import, Devlist}
=============================================================================
