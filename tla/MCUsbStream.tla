---------------------------- MODULE MCUsbStream -----------------------------
EXTENDS UsbStream
=============================================================================
