---------------------------- MODULE MCUsbFollow -----------------------------
EXTENDS UsbFollow
=============================================================================
