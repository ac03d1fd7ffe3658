----------------------------- MODULE MCUsbLink ------------------------------
EXTENDS UsbLink

\* Commands and replies with and without data; a last one to see the effects.
MCCmdData == <<1, 0, 0>>
MCRepData == <<0, 1, 0>>
=============================================================================
